---- MODULE Spec2Model ----
(***************************************************************************)
(* Lyrical-Flow: the timeline playback / compositing engine of App         *)
(* (src/components/Timeline.tsx holds the Timeline view, lines 1-245, and  *)
(* the App controller, lines 246-1095; src/unnamed/part_000 holds the      *)
(* types, the storage service and the AI service).                         *)
(*                                                                         *)
(* Time.  Every time value (clip duration, audio duration, global time,    *)
(* subtitle bounds, animation duration) is an integer number of TENTHS OF  *)
(* A SECOND; the source computes with IEEE doubles, the model with exact   *)
(* integers and exact fractions.  A fraction is a pair <<num, den>> with   *)
(* den > 0; it is never rounded.  Half a clip duration (duration/2) is     *)
(* kept exact by comparing doubled quantities.                             *)
(*                                                                         *)
(* Indices.  activeIndex is 0-based as in the source (-1 = none); the      *)
(* clip with 0-based index i is images[i + 1].                             *)
(***************************************************************************)
EXTENDS Integers, Sequences, FiniteSets, TLC

VARIABLES
    images,              \* useHistory<ImageAsset[]> state: the clip sequence
    imageElements,       \* imageElementsRef: clip id -> load status of its <img>
    audioAsset,          \* main audio asset (or NullAsset)
    lyrics,              \* global subtitle list
    transitionEffect,    \* 'none' | 'fade' | 'slide' | 'zoom'
    transitionDuration,  \* tenths of a second
    currentTime,         \* global time, tenths of a second
    isPlaying,           \* play state of the driver
    audioEl,             \* the main <audio> element: [duration, paused, currentTime]
    mediaEvents,         \* media events queued by the element, not yet dispatched
    tempAudio,           \* duration of the uploaded file whose metadata is loading (0: none)
    frame,               \* what the last drawCanvas() call painted
    tempBgAudio,         \* same for an uploaded background file
    bgAudioAsset,        \* background audio asset (or NullAsset)
    bgEl,                \* the background <audio loop> element: [duration, paused, currentTime]
    mainAudioVolume,     \* main audio volume, percent
    appState,            \* AppState: "IDLE" | "READY" | "EXPORTING"
    speakersGain,        \* gain of speakersGainNodeRef (NoNode: not created yet)
    recorder,            \* the MediaRecorder of handleExport: "none" | "recording" | "stopping"
    exportTimer,         \* delay of the setTimeout armed by handleExport (NoTimer: none pending)
    onended,             \* audioRef.current.onended is set
    downloads,           \* files offered for download since the last export began
    lastToast,           \* message of the last toast added
    rafPending,          \* frame callbacks requested and neither run nor cancelled
    animationFrameRef,   \* animationFrameRef.current (NoFrameId: undefined)
    mounted,             \* the App view is mounted
    saved,               \* the record under KEY in the project store (<<>>: none)
    resolution,          \* '720p' | '1080p'
    frameRate,           \* 30 | 60
    bgMusicVolume,       \* background music volume, percent
    vp9Supported,        \* MediaRecorder.isTypeSupported('video/webm;codecs=vp9')
    recorderOptions,     \* options of the MediaRecorder constructed last
    isSyncingLyrics,     \* a transcription is in flight
    captionJob,          \* the caption request in flight (<<>>: none)
    draggedIndex,        \* Timeline's draggedIndex (<<>>: null)
    dragging,            \* the browser has a drag of a timeline clip under way
    editingImageId,      \* id of the clip in the crop editor (<<>>: null)
    tempCrop             \* the crop shown in the crop editor

vars == <<images, imageElements, audioAsset, lyrics, transitionEffect,
          transitionDuration, currentTime, isPlaying, audioEl, mediaEvents,
          tempAudio, frame, tempBgAudio, bgAudioAsset, bgEl, mainAudioVolume, appState,
          speakersGain, recorder, exportTimer, onended, downloads, lastToast,
          rafPending, animationFrameRef, mounted, saved, resolution, frameRate,
          bgMusicVolume, vp9Supported, recorderOptions, isSyncingLyrics,
          captionJob, draggedIndex, dragging, editingImageId, tempCrop>>

project == <<images, imageElements, audioAsset, lyrics, transitionEffect,
             transitionDuration>>

bgAudio == <<bgAudioAsset, bgEl, tempBgAudio>>

export == <<appState, speakersGain, recorder, exportTimer, onended, downloads>>

frames == <<rafPending, animationFrameRef, mounted>>

storage == <<saved, resolution, frameRate, bgMusicVolume>>

remote == <<isSyncingLyrics, captionJob>>

editing == <<draggedIndex, dragging, editingImageId, tempCrop>>

\* what the handlers of playback, upload and export leave alone
session == <<frames, storage, remote, vp9Supported, editing>>

----------------------------------------------------------------------------
(* Program constants, in tenths of a second *)

DefaultTotalDuration == 100     \* `totalImageDuration || 10`
DefaultClipDuration == 50       \* `let nextDuration = 5`
DefaultAnimDuration == 15       \* `ov.animationDuration || 1.5`
DefaultTransitionDuration == 10 \* useState<number>(1.0)
DefaultMainAudioVolume == 100   \* useState<number>(1.0), percent
NoNode == -1                    \* speakersGainNodeRef.current is null
NoTimer == -1                   \* no export timeout pending
DefaultBgMusicVolume == 20      \* useState<number>(0.2), percent
DefaultFrameRate == 30          \* useState<VideoFrameRate>(30)
NoFrameId == 0                  \* useRef<number>(): undefined
NoBitrate == 0                  \* options.videoBitsPerSecond is absent

(* Bounds of the model *)

MaxClips == 2        \* clips in a project
MaxLyrics == 2       \* subtitle segments in a project
MaxOverlays == 1     \* text overlays on one clip
MaxEvents == 2       \* media events queued and not yet dispatched

(* Inputs of the editor's operations *)

TickSteps == {20, 40}          \* elapsed time between two frame callbacks
AudioSteps == {30}             \* progress of the audio element between two steps
SeekTimes == {0, 60}           \* positions clicked on the timeline
UploadDurations == {60}        \* durations of the audio files uploaded
BgUploadDurations == {60}      \* durations of the background files uploaded
ExportTickSteps == {40}        \* elapsed time between two frame callbacks (export)
Volumes == {50, 100}           \* positions of the Main Audio slider, percent
DurationEdits == {0, 20}       \* values typed into the Duration field

----------------------------------------------------------------------------
(* Small helpers *)

Min(a, b) == IF a <= b THEN a ELSE b
Max(a, b) == IF a >= b THEN a ELSE b

\* exact fractions <<num, den>>, den > 0
FracEq(a, b) == a[1] * b[2] = b[1] * a[2]
FracLe(a, b) == a[1] * b[2] <= b[1] * a[2]

NullAsset == [present |-> FALSE, duration |-> 0]
Asset(d) == [present |-> TRUE, duration |-> d]

Effects == {"none", "fade", "slide", "zoom"}
Animations == {"none", "fade", "slide-up", "typewriter"}

----------------------------------------------------------------------------
(* Derived values of the App render *)

RECURSIVE SumDurations(_, _)
\* images.slice(0, n).reduce((acc, img) => acc + img.duration, 0)
SumDurations(imgs, n) ==
    IF n = 0 THEN 0 ELSE SumDurations(imgs, n - 1) + imgs[n].duration

totalImageDuration(imgs) == SumDurations(imgs, Len(imgs))

\* x || y of JavaScript on numbers: y when x is 0
OrElse(x, y) == IF x = 0 THEN y ELSE x

totalDuration(audio, imgs) ==
    Max(IF audio.present THEN OrElse(audio.duration, 0) ELSE 0,
        OrElse(totalImageDuration(imgs), DefaultTotalDuration))

RECURSIVE ScanActive(_, _, _, _)
\* the for loop shared by getActiveImageIndex and drawCanvas: the first
\* 0-based i >= k with acc <= t < acc + duration(i), and the accumulated
\* start time of that clip; index -1 when the loop runs off the end.
ScanActive(imgs, t, k, acc) ==
    IF k >= Len(imgs) THEN [index |-> -1, start |-> acc]
    ELSE IF t >= acc /\ t < acc + imgs[k + 1].duration
         THEN [index |-> k, start |-> acc]
         ELSE ScanActive(imgs, t, k + 1, acc + imgs[k + 1].duration)

getActiveImageIndex(imgs, t) ==
    IF Len(imgs) = 0 THEN -1
    ELSE LET r == ScanActive(imgs, t, 0, 0)
         IN  IF r.index # -1 THEN r.index ELSE Len(imgs) - 1

----------------------------------------------------------------------------
(* The compositor: drawCanvas *)

NoFrame ==
    [drawn |-> FALSE, t |-> 0, placeholder |-> FALSE, activeIndex |-> -1,
     activeImageStartTime |-> 0, it |-> FALSE, p |-> <<0, 1>>,
     layers |-> <<>>, texts |-> <<>>, currentLyric |-> <<>>, threw |-> FALSE]

\* ctx.globalAlpha = Math.max(0, Math.min(1, opacity))
ClampAlpha(f) ==
    IF f[1] < 0 THEN <<0, 1>> ELSE IF f[1] > f[2] THEN <<1, 1>> ELSE f

\* (variant: the canvas is not cleared, a layer is painted over the layers
\* the previous call left)
renderLayerOver(imgs, elems, idx, opacity) ==
    LET img == imgs[idx + 1]
    IN  IF img.id \in DOMAIN elems /\ elems[img.id] = "complete"
        THEN frame.layers \o << [idx |-> idx, alpha |-> ClampAlpha(opacity)] >>
        ELSE frame.layers

\* renderLayer(idx, opacity): the layers it paints (none unless the clip's
\* <img> element is registered and complete)
renderLayer(imgs, elems, idx, opacity) ==
    LET img == imgs[idx + 1]
    IN  IF img.id \in DOMAIN elems /\ elems[img.id] = "complete"
        THEN << [idx |-> idx, alpha |-> ClampAlpha(opacity)] >>
        ELSE <<>>

\* ctx.drawImage(el, ...) in renderLayer(idx, ...): the <img> element of a
\* file that failed to decode is complete, and drawImage throws on it
DrawImageThrows(imgs, elems, idx) ==
    LET img == imgs[idx + 1]
    IN  img.id \in DOMAIN elems /\ elems[img.id] = "broken"

\* (variant: the window test with < in place of <=)
InWindowStrict(tl, td, dur) == 2 * tl < Min(2 * td, dur)

\* tl <= Math.min(transitionDuration, imgObj.duration / 2), doubled
InWindow(tl, td, dur) == 2 * tl <= Min(2 * td, dur)

\* it: the transition test of drawCanvas
IsTransition(imgs, activeIndex, tl, effect, td) ==
    /\ effect # "none"
    /\ InWindow(tl, td, imgs[activeIndex + 1].duration)
    /\ activeIndex < Len(imgs) - 1

\* (variant: the progress measured against transitionDuration alone)
TransitionProgressNoHalf(tl, td, dur) == <<td - tl, td>>

\* (variant: the progress running from 1 down to 0)
TransitionProgressReversed(tl, td, dur) ==
    LET w2 == Min(2 * td, dur) IN <<2 * tl, w2>>

\* p = 1 - (tl / Math.min(transitionDuration, imgObj.duration / 2))
TransitionProgress(tl, td, dur) ==
    LET w2 == Min(2 * td, dur) IN <<w2 - 2 * tl, w2>>

\* (variant: overlay time taken from the global time)
RelativeTimeGlobal(t, activeImageStartTime) == t

\* relativeTime = currentTime - activeImageStartTime
RelativeTime(t, activeImageStartTime) == t - activeImageStartTime

\* ov.animationDuration || 1.5
AnimDuration(ov) == OrElse(ov.animationDuration, DefaultAnimDuration)

\* progress = Math.min(Math.max(relativeTime / animDuration, 0), 1)
Progress(relativeTime, animDuration) ==
    LET n == IF animDuration > 0 THEN relativeTime ELSE -relativeTime
        d == IF animDuration > 0 THEN animDuration ELSE -animDuration
    IN  <<Min(Max(n, 0), d), d>>

\* charCount = Math.floor(ov.text.length * progress)
CharCount(text, progress) == (Len(text) * progress[1]) \div progress[2]

\* (variant: the offset of slide-up falling linearly)
SlideOffsetLinear(progress) == <<progress[2] - progress[1], progress[2]>>

\* ease = 1 - Math.pow(1 - progress, 3); renderY - ov.y * height =
\* offset - offset * ease, as a fraction of offset
SlideOffset(progress) ==
    LET n == progress[2] - progress[1]
        d == progress[2]
    IN  <<(d * d * d) - ((d * d * d) - (n * n * n)), d * d * d>>

\* one text overlay as painted: progress, globalAlpha, the distance of
\* renderY from the overlay's position (in offsets) and the text drawn
renderText(ov, relativeTime) ==
    LET progress == Progress(relativeTime, AnimDuration(ov))
    IN  [progress |-> progress,
         renderOffset |->
             IF ov.animation = "slide-up" THEN SlideOffset(progress)
             ELSE <<0, 1>>,
         renderOpacity |->
             IF ov.animation \in {"fade", "slide-up"}
             THEN <<ov.opacity * progress[1], 100 * progress[2]>>
             ELSE <<ov.opacity, 100>>,
         renderText |->
             IF ov.animation = "typewriter"
             THEN SubSeq(ov.text, 1, CharCount(ov.text, progress))
             ELSE ov.text]

\* lyrics.find(l => currentTime >= l.startTime && currentTime <= l.endTime)
RECURSIVE FindLyric(_, _, _)
FindLyric(ls, t, k) ==
    IF k > Len(ls) THEN <<>>
    ELSE IF t >= ls[k].startTime /\ t <= ls[k].endTime THEN << ls[k] >>
         ELSE FindLyric(ls, t, k + 1)

\* drawCanvas(): the frame painted for the given project and time; when a
\* drawImage throws, what was painted before it, and threw
drawCanvas(imgs, elems, audio, ls, effect, td, t) ==
    IF Len(imgs) = 0 /\ ~audio.present
    THEN [NoFrame EXCEPT !.drawn = TRUE, !.t = t, !.placeholder = TRUE]
    ELSE
      LET r == IF Len(imgs) > 0 THEN ScanActive(imgs, t, 0, 0)
               ELSE [index |-> -1, start |-> 0]
          active == r.index # -1
          imgObj == imgs[r.index + 1]
          tl == imgObj.duration - (t - r.start)
          it == active /\ IsTransition(imgs, r.index, tl, effect, td)
          p == TransitionProgress(tl, td, imgObj.duration)
          threwFirst == active /\ DrawImageThrows(imgs, elems, r.index)
          threw == threwFirst \/ (it /\ DrawImageThrows(imgs, elems, r.index + 1))
      IN  [drawn |-> TRUE,
           t |-> t,
           placeholder |-> FALSE,
           activeIndex |-> r.index,
           activeImageStartTime |-> IF active THEN r.start ELSE 0,
           it |-> it,
           p |-> IF it THEN p ELSE <<0, 1>>,
           layers |->
               IF ~active \/ threwFirst THEN <<>>
               ELSE IF it
                    THEN renderLayer(imgs, elems, r.index, <<1, 1>>)
                         \o renderLayer(imgs, elems, r.index + 1, p)
                    ELSE renderLayer(imgs, elems, r.index, <<1, 1>>),
           texts |->
               IF ~active \/ threw THEN <<>>
               ELSE [k \in 1..Len(imgObj.textOverlays) |->
                        renderText(imgObj.textOverlays[k],
                                   RelativeTime(t, r.start))],
           currentLyric |-> IF Len(ls) > 0 /\ ~threw THEN FindLyric(ls, t, 1)
                            ELSE <<>>,
           threw |-> threw]

----------------------------------------------------------------------------
(* The playback driver *)

\* (variant: the time always advanced by the elapsed wall time)
PlayingTimeWallClock(dt) == currentTime + dt

\* (variant: without main audio the elapsed time is not added)
PlayingTimeFrozen(dt) ==
    IF audioAsset.present
    THEN IF ~audioEl.paused THEN audioEl.currentTime ELSE currentTime
    ELSE currentTime

\* the time a frame callback computes while playing: the position of the
\* main <audio> element when there is a main audio asset (kept when the
\* element is paused), the previous time plus the elapsed time otherwise
PlayingTime(dt) ==
    IF audioAsset.present
    THEN IF ~audioEl.paused THEN audioEl.currentTime ELSE currentTime
    ELSE currentTime + dt

\* the body of the frame callback `loop` of the render-loop effect, up to
\* its requestAnimationFrame.  drawCanvas is the callback of the render that
\* installed the loop, so it paints the state as it was before this tick's
\* setCurrentTime.
loop(dt) ==
    /\ IF isPlaying
       THEN IF audioAsset.present
            THEN /\ currentTime' = PlayingTime(dt)
                 /\ isPlaying' = isPlaying
            ELSE LET n == PlayingTime(dt) IN
                 IF n >= totalDuration(audioAsset, images)
                 THEN currentTime' = 0 /\ isPlaying' = FALSE
                 ELSE currentTime' = n /\ isPlaying' = isPlaying
       ELSE UNCHANGED <<currentTime, isPlaying>>
    /\ frame' = drawCanvas(images, imageElements, audioAsset, lyrics,
                           transitionEffect, transitionDuration, currentTime)
    /\ UNCHANGED <<project, audioEl, mediaEvents, tempAudio, bgAudio,
                   mainAudioVolume, export, lastToast>>

\* a frame callback of the running loop: it runs the body and requests the
\* next frame, which takes the place of the one that ran
Tick(dt) ==
    /\ loop(dt)
    /\ UNCHANGED <<session, recorderOptions>>

\* HTMLMediaElement.pause(): a playing element is paused and queues `pause`
PauseElement(el) == [el EXCEPT !.paused = TRUE]
PauseEvents(el) == IF el.paused THEN <<>> ELSE <<"pause">>

\* HTMLMediaElement.play(): a paused element with a source starts (from the
\* beginning when it had ended) and queues `play`
PlayElement(el) ==
    IF el.duration = 0 THEN el
    ELSE [el EXCEPT !.paused = FALSE,
                    !.currentTime = IF el.currentTime >= el.duration THEN 0
                                    ELSE el.currentTime]
PlayEvents(el) == IF el.paused /\ el.duration # 0 THEN <<"play">> ELSE <<>>

\* el.currentTime = time: a seek, within the media
SeekElement(el, time) == [el EXCEPT !.currentTime = Min(time, el.duration)]

\* togglePlay
TogglePlay ==
    /\ Len(mediaEvents) < MaxEvents
    /\ IF isPlaying
       THEN /\ audioEl' = PauseElement(audioEl)
            /\ mediaEvents' = mediaEvents \o PauseEvents(audioEl)
            /\ bgEl' = PauseElement(bgEl)
       ELSE /\ IF audioAsset.present
               THEN /\ audioEl' = PlayElement(audioEl)
                    /\ mediaEvents' = mediaEvents \o PlayEvents(audioEl)
               ELSE UNCHANGED <<audioEl, mediaEvents>>
            /\ bgEl' = PlayElement(SeekElement(bgEl, audioEl'.currentTime))
    /\ isPlaying' = ~isPlaying
    /\ UNCHANGED <<project, currentTime, tempAudio, frame, bgAudioAsset,
                   tempBgAudio, mainAudioVolume, export, lastToast>>
    /\ UNCHANGED <<session, recorderOptions>>

\* handleSeek(time), called by the Timeline with 0 <= time <= duration
HandleSeek(time) ==
    /\ time \in 0..totalDuration(audioAsset, images)
    /\ audioEl' = [audioEl EXCEPT !.currentTime = Min(time, audioEl.duration)]
    /\ bgEl' = SeekElement(bgEl, time)
    /\ currentTime' = time
    /\ UNCHANGED <<project, isPlaying, mediaEvents, tempAudio, frame,
                   bgAudioAsset, tempBgAudio, mainAudioVolume, export, lastToast>>
    /\ UNCHANGED <<session, recorderOptions>>

\* jumpToImage(imageId) for the clip at position i: the seek goes 0.1 s past
\* the start of the clip
jumpToImage(i) ==
    /\ i \in 1..Len(images)
    /\ LET seekTime == SumDurations(images, i - 1) + 1
       IN  /\ currentTime' = seekTime
           /\ audioEl' = SeekElement(audioEl, seekTime)
           /\ bgEl' = SeekElement(bgEl, seekTime)
    /\ UNCHANGED <<project, isPlaying, mediaEvents, tempAudio, frame,
                   bgAudioAsset, tempBgAudio, mainAudioVolume, export, lastToast>>
    /\ UNCHANGED <<session, recorderOptions>>

\* handleAudioUpload, up to tempAudio.onloadedmetadata: the element gets the
\* new source and is reset by load()
HandleAudioUpload(d) ==
    /\ tempAudio = 0
    /\ audioEl' = [duration |-> d, paused |-> TRUE, currentTime |-> 0]
    /\ tempAudio' = d
    /\ UNCHANGED <<project, currentTime, isPlaying, mediaEvents, frame, bgAudio,
                   mainAudioVolume, export, lastToast>>
    /\ UNCHANGED <<session, recorderOptions>>

\* initAudioContext, as far as the monitoring gain goes: the node is created
\* once, with gain 1
initAudioContext(gain) == IF gain = NoNode THEN 1 ELSE gain

\* tempAudio.onloadedmetadata of handleAudioUpload, and the effect on
\* [audioAsset, bgAudioAsset] of the render that follows
AudioLoadedMetadata ==
    /\ tempAudio # 0
    /\ audioAsset' = Asset(tempAudio)
    /\ currentTime' = 0
    /\ isPlaying' = FALSE
    /\ tempAudio' = 0
    /\ lastToast' = "Loaded"
    /\ speakersGain' = initAudioContext(speakersGain)
    /\ UNCHANGED <<images, imageElements, lyrics, transitionEffect,
                   transitionDuration, audioEl, mediaEvents, frame, bgAudio,
                   mainAudioVolume, appState, recorder, exportTimer, onended,
                   downloads>>
    /\ UNCHANGED <<session, recorderOptions>>

\* handleBgAudioUpload, up to tempAudio.onloadedmetadata
HandleBgAudioUpload(d) ==
    /\ tempBgAudio = 0
    /\ bgEl' = [duration |-> d, paused |-> TRUE, currentTime |-> 0]
    /\ tempBgAudio' = d
    /\ UNCHANGED <<project, currentTime, isPlaying, audioEl, mediaEvents,
                   tempAudio, frame, bgAudioAsset, mainAudioVolume, export,
                   lastToast>>
    /\ UNCHANGED <<session, recorderOptions>>

\* tempAudio.onloadedmetadata of handleBgAudioUpload, and the effect on
\* [audioAsset, bgAudioAsset]
BgAudioLoadedMetadata ==
    /\ tempBgAudio # 0
    /\ bgAudioAsset' = Asset(tempBgAudio)
    /\ tempBgAudio' = 0
    /\ lastToast' = "Background"
    /\ speakersGain' = initAudioContext(speakersGain)
    /\ UNCHANGED <<project, currentTime, isPlaying, audioEl, mediaEvents,
                   tempAudio, frame, bgEl, mainAudioVolume, appState, recorder,
                   exportTimer, onended, downloads>>
    /\ UNCHANGED <<session, recorderOptions>>

\* removeBgAudio
RemoveBgAudio ==
    /\ bgAudioAsset.present
    /\ bgAudioAsset' = NullAsset
    /\ bgEl' = [duration |-> 0, paused |-> TRUE, currentTime |-> 0]
    /\ lastToast' = "Background music removed"
    /\ UNCHANGED <<project, currentTime, isPlaying, audioEl, mediaEvents,
                   tempAudio, frame, tempBgAudio, mainAudioVolume, export>>
    /\ UNCHANGED <<session, recorderOptions>>

\* the Main Audio slider of the mixer
SetMainAudioVolume(v) ==
    /\ audioAsset.present
    /\ mainAudioVolume' = v
    /\ UNCHANGED <<project, currentTime, isPlaying, audioEl, mediaEvents,
                   tempAudio, frame, bgAudio, export, lastToast>>
    /\ UNCHANGED <<session, recorderOptions>>

\* crop: { x: 0, y: 0, scale: 1 }, the scale in percent
DefaultCrop == [x |-> 0, y |-> 0, scale |-> 100]

\* adjustments: { brightness: 100, contrast: 100, saturation: 100, ... }
DefaultAdjustments ==
    [brightness |-> 100, contrast |-> 100, saturation |-> 100, sepia |-> 0,
     grayscale |-> 0, blur |-> 0]

\* (variant: the audio divided among the new files only)
nextDurationNewOnly(audio, n, k) ==
    IF audio.present /\ k > 0 THEN audio.duration \div k
    ELSE DefaultClipDuration

\* let nextDuration = 5; if (audioAsset && (images.length +
\* imageFiles.length) > 0) nextDuration = audioAsset.duration / (...)
nextDuration(audio, n, k) ==
    IF audio.present /\ n + k > 0 THEN audio.duration \div (n + k)
    ELSE DefaultClipDuration

\* processFiles with k image files.  An object URL is kept as the name of
\* what created it: "upload" (processFiles), "load" (loadProject), "" (stored)
ProcessFiles(k) ==
    /\ Len(images) + k <= MaxClips
    /\ LET n == Len(images)
           newImages == [j \in 1..k |-> [id |-> n + j, url |-> "upload",
                                         crop |-> DefaultCrop,
                                         adjustments |-> DefaultAdjustments,
                                         duration |-> nextDuration(audioAsset, n, k),
                                         textOverlays |-> <<>>]]
       IN  /\ images' = images \o newImages
           /\ imageElements' =
                  [i \in DOMAIN imageElements \cup {n + j : j \in 1..k} |->
                      IF i \in DOMAIN imageElements THEN imageElements[i]
                      ELSE "loading"]
    /\ lastToast' = "Added"
    /\ UNCHANGED <<audioAsset, lyrics, transitionEffect, transitionDuration,
                   currentTime, isPlaying, audioEl, mediaEvents, tempAudio, frame,
                   bgAudio, mainAudioVolume, export>>
    /\ UNCHANGED <<session, recorderOptions>>

\* an <img> element created by processFiles finishes loading
ImageLoaded(id) ==
    /\ id \in DOMAIN imageElements
    /\ imageElements[id] = "loading"
    /\ imageElements' = [imageElements EXCEPT ![id] = "complete"]
    /\ UNCHANGED <<images, audioAsset, lyrics, transitionEffect, transitionDuration,
                   currentTime, isPlaying, audioEl, mediaEvents, tempAudio, frame,
                   bgAudio, mainAudioVolume, export, lastToast>>
    /\ UNCHANGED <<session, recorderOptions>>

\* the file behind an <img> element created by processFiles cannot be decoded
ImageError(id) ==
    /\ id \in DOMAIN imageElements
    /\ imageElements[id] = "loading"
    /\ imageElements' = [imageElements EXCEPT ![id] = "broken"]
    /\ UNCHANGED <<images, audioAsset, lyrics, transitionEffect, transitionDuration,
                   currentTime, isPlaying, audioEl, mediaEvents, tempAudio, frame,
                   bgAudio, mainAudioVolume, export, lastToast>>
    /\ UNCHANGED <<session, recorderOptions>>

\* the background <audio loop> element plays on for d: it wraps around
LoopAdvance(el, d) ==
    IF el.paused \/ el.duration = 0 THEN el
    ELSE [el EXCEPT !.currentTime = (el.currentTime + d) % el.duration]

\* the <audio> elements play on for d: the position of the main element
\* advances by d, and at the end of the media it pauses itself and queues
\* `pause` and `ended`; the background element loops
AudioAdvance(d) ==
    /\ \/ ~audioEl.paused /\ audioEl.duration # 0
       \/ ~bgEl.paused /\ bgEl.duration # 0
    /\ IF ~audioEl.paused /\ audioEl.duration # 0
       THEN LET n == Min(audioEl.currentTime + d, audioEl.duration) IN
            IF n >= audioEl.duration
            THEN /\ Len(mediaEvents) + 2 <= MaxEvents
                 /\ audioEl' = [audioEl EXCEPT !.currentTime = n, !.paused = TRUE]
                 /\ mediaEvents' = mediaEvents \o <<"pause", "ended">>
            ELSE /\ audioEl' = [audioEl EXCEPT !.currentTime = n]
                 /\ UNCHANGED mediaEvents
       ELSE UNCHANGED <<audioEl, mediaEvents>>
    /\ bgEl' = LoopAdvance(bgEl, d)
    /\ UNCHANGED <<project, currentTime, isPlaying, tempAudio, frame,
                   bgAudioAsset, tempBgAudio, mainAudioVolume, export, lastToast>>
    /\ UNCHANGED <<session, recorderOptions>>

\* (variant: the handler of the export stays installed)
OnendedKept == TRUE

\* audioRef.current!.onended = null, in the handler handleExport installed
OnendedAfterStop == FALSE

\* <audio onEnded onPlay onPause>: the handlers of the main element, and on
\* `ended` the audioRef.current.onended handler that handleExport installed
OnMediaEvent ==
    /\ mediaEvents # <<>>
    /\ isPlaying' = (Head(mediaEvents) = "play")
    /\ mediaEvents' = Tail(mediaEvents)
    /\ IF Head(mediaEvents) = "ended" /\ onended /\ recorder = "recording"
       THEN /\ recorder' = "stopping"
            /\ onended' = OnendedAfterStop
            /\ bgEl' = PauseElement(bgEl)
       ELSE UNCHANGED <<recorder, onended, bgEl>>
    /\ UNCHANGED <<project, currentTime, audioEl, tempAudio, frame,
                   bgAudioAsset, tempBgAudio, mainAudioVolume, appState,
                   speakersGain, exportTimer, downloads, lastToast>>
    /\ UNCHANGED <<session, recorderOptions>>

\* the Duration field of the properties panel on clip i:
\* updateSelectedImage({ duration: parseFloat(e.target.value) })
UpdateDuration(i, d) ==
    /\ i \in 1..Len(images)
    /\ images' = [images EXCEPT ![i].duration = d]
    /\ UNCHANGED <<imageElements, audioAsset, lyrics, transitionEffect,
                   transitionDuration, currentTime, isPlaying, audioEl,
                   mediaEvents, tempAudio, frame, bgAudio, mainAudioVolume,
                   export, lastToast>>
    /\ UNCHANGED <<session, recorderOptions>>

\* the clips moveSelectedImageOrder(direction) leaves when the selected clip
\* is at index: exchanged with its neighbour, or as they were at the end
SwapWithNeighbour(imgs, index, direction) ==
    IF direction = "backward" /\ index > 0
    THEN [imgs EXCEPT ![index + 1] = imgs[index], ![index] = imgs[index + 1]]
    ELSE IF direction = "forward" /\ index < Len(imgs) - 1
         THEN [imgs EXCEPT ![index + 1] = imgs[index + 2],
                           ![index + 2] = imgs[index + 1]]
         ELSE imgs

\* moveSelectedImageOrder(direction) with clip i selected
moveSelectedImageOrder(i, direction) ==
    /\ i \in 1..Len(images)
    /\ LET j == IF direction = "backward" THEN i - 1 ELSE i + 1
       IN  /\ j \in 1..Len(images)
           /\ images' = SwapWithNeighbour(images, i - 1, direction)
    /\ UNCHANGED <<imageElements, audioAsset, lyrics, transitionEffect,
                   transitionDuration, currentTime, isPlaying, audioEl,
                   mediaEvents, tempAudio, frame, bgAudio, mainAudioVolume,
                   export, lastToast>>
    /\ UNCHANGED <<session, recorderOptions>>

\* (variant: the two clips exchanged)
handleTimelineReorderSwap(imgs, fromIndex, toIndex) ==
    [imgs EXCEPT ![fromIndex + 1] = imgs[toIndex + 1],
                 ![toIndex + 1] = imgs[fromIndex + 1]]

\* handleTimelineReorder(fromIndex, toIndex): the clips after
\* splice(fromIndex, 1) and splice(toIndex, 0, movedItem)
handleTimelineReorder(imgs, fromIndex, toIndex) ==
    IF fromIndex = toIndex THEN imgs
    ELSE LET rest == SubSeq(imgs, 1, fromIndex)
                     \o SubSeq(imgs, fromIndex + 2, Len(imgs))
         IN  SubSeq(rest, 1, toIndex) \o << imgs[fromIndex + 1] >>
             \o SubSeq(rest, toIndex + 1, Len(rest))

\* Timeline.handleDragStart(e, index): a drag of the clip at index begins
handleDragStart(index) ==
    /\ ~dragging
    /\ index \in 0..(Len(images) - 1)
    /\ draggedIndex' = << index >>
    /\ dragging' = TRUE
    /\ UNCHANGED <<project, currentTime, isPlaying, audioEl, mediaEvents,
                   tempAudio, frame, bgAudio, mainAudioVolume, export, lastToast,
                   frames, storage, remote, vp9Supported, recorderOptions,
                   editingImageId, tempCrop>>

\* Timeline.handleDrop(e, dropIndex): the dragged clip is dropped on the clip
\* at dropIndex, which ends the drag
handleDrop(dropIndex) ==
    /\ dragging
    /\ dropIndex \in 0..(Len(images) - 1)
    /\ dragging' = FALSE
    /\ IF draggedIndex = <<>> \/ draggedIndex[1] = dropIndex
       THEN UNCHANGED <<images, draggedIndex>>
       ELSE /\ images' = handleTimelineReorder(images, draggedIndex[1], dropIndex)
            /\ draggedIndex' = <<>>
    /\ UNCHANGED <<imageElements, audioAsset, lyrics, transitionEffect,
                   transitionDuration, currentTime, isPlaying, audioEl,
                   mediaEvents, tempAudio, frame, bgAudio, mainAudioVolume,
                   export, lastToast, frames, storage, remote, vp9Supported,
                   recorderOptions, editingImageId, tempCrop>>

\* the drag ends anywhere else (outside the track, or Escape): the clips
\* bind onDragStart, onDragOver and onDrop, and nothing runs
DragCancelled ==
    /\ dragging
    /\ dragging' = FALSE
    /\ UNCHANGED <<project, currentTime, isPlaying, audioEl, mediaEvents,
                   tempAudio, frame, bgAudio, mainAudioVolume, export, lastToast,
                   frames, storage, remote, vp9Supported, recorderOptions,
                   draggedIndex, editingImageId, tempCrop>>

\* Timeline.handleSeek(e): a click on the background of the timeline at the
\* position of time
TimelineSeek(time) ==
    /\ ~dragging
    /\ draggedIndex = <<>>
    /\ HandleSeek(time)

\* the Advanced Crop button of the properties panel with clip i selected:
\* setEditingImageId(selectedImage.id)
AdvancedCrop(i) ==
    /\ editingImageId = <<>>
    /\ i \in 1..Len(images)
    /\ editingImageId' = << images[i].id >>
    /\ UNCHANGED <<project, currentTime, isPlaying, audioEl, mediaEvents,
                   tempAudio, frame, bgAudio, mainAudioVolume, export, lastToast,
                   frames, storage, remote, vp9Supported, recorderOptions,
                   draggedIndex, dragging, tempCrop>>

\* the controls of the crop editor (Zoom slider, drag, reset): setTempCrop
SetTempCrop(c) ==
    /\ editingImageId # <<>>
    /\ tempCrop' = c
    /\ UNCHANGED <<project, currentTime, isPlaying, audioEl, mediaEvents,
                   tempAudio, frame, bgAudio, mainAudioVolume, export, lastToast,
                   frames, storage, remote, vp9Supported, recorderOptions,
                   draggedIndex, dragging, editingImageId>>

\* prev.map(img => img.id === editingImageId ? { ...img, crop: tempCrop } : img)
WithCrop(imgs, id, crop) ==
    [i \in 1..Len(imgs) |->
        IF imgs[i].id = id THEN [imgs[i] EXCEPT !.crop = crop] ELSE imgs[i]]

\* saveCrop (the Save Crop button of the crop editor)
saveCrop ==
    /\ editingImageId # <<>>
    /\ images' = WithCrop(images, editingImageId[1], tempCrop)
    /\ editingImageId' = <<>>
    /\ UNCHANGED <<imageElements, audioAsset, lyrics, transitionEffect,
                   transitionDuration, currentTime, isPlaying, audioEl,
                   mediaEvents, tempAudio, frame, bgAudio, mainAudioVolume,
                   export, lastToast, frames, storage, remote, vp9Supported,
                   recorderOptions, draggedIndex, dragging, tempCrop>>

\* closeCropModal (the Cancel button of the crop editor)
closeCropModal ==
    /\ editingImageId # <<>>
    /\ editingImageId' = <<>>
    /\ UNCHANGED <<project, currentTime, isPlaying, audioEl, mediaEvents,
                   tempAudio, frame, bgAudio, mainAudioVolume, export, lastToast,
                   frames, storage, remote, vp9Supported, recorderOptions,
                   draggedIndex, dragging, tempCrop>>

\* the Background Music slider of the mixer
SetBgMusicVolume(v) ==
    /\ bgMusicVolume' = v
    /\ UNCHANGED <<project, currentTime, isPlaying, audioEl, mediaEvents,
                   tempAudio, frame, bgAudio, mainAudioVolume, export, lastToast,
                   frames, saved, resolution, frameRate, remote, vp9Supported, editing,
                   recorderOptions>>

----------------------------------------------------------------------------
(* Text overlays and the AI service.  Positions and opacities are in percent *)
(* of the canvas; a remote request is one step when it is sent and one when  *)
(* it returns.                                                               *)

\* updateSelectedImage({ textOverlays }) with the clip of the given id selected
SetOverlays(imgs, id, ovs) ==
    [i \in 1..Len(imgs) |->
        IF imgs[i].id = id THEN [imgs[i] EXCEPT !.textOverlays = ovs] ELSE imgs[i]]

\* the overlay addTextToSelected adds: "New Text" in the middle of the canvas
NewText ==
    [text |-> <<"N", "e", "w", " ", "T", "e", "x", "t">>, x |-> 50, y |-> 50,
     opacity |-> 100, animation |-> "none", animationDuration |-> 15]

\* addTextToSelected with clip i selected
addTextToSelected(i) ==
    /\ i \in 1..Len(images)
    /\ Len(images[i].textOverlays) < MaxOverlays
    /\ images' = SetOverlays(images, images[i].id,
                             Append(images[i].textOverlays, NewText))
    /\ UNCHANGED <<imageElements, audioAsset, lyrics, transitionEffect,
                   transitionDuration, currentTime, isPlaying, audioEl,
                   mediaEvents, tempAudio, frame, bgAudio, mainAudioVolume,
                   export, lastToast>>
    /\ UNCHANGED <<session, recorderOptions>>

\* the Opacity slider of the text panel (0 to 1 in steps of 0.05) on
\* overlay k of clip i
SetOverlayOpacity(i, k, v) ==
    /\ i \in 1..Len(images)
    /\ k \in 1..Len(images[i].textOverlays)
    /\ images' = SetOverlays(images, images[i].id,
                             [images[i].textOverlays EXCEPT ![k].opacity = v])
    /\ UNCHANGED <<imageElements, audioAsset, lyrics, transitionEffect,
                   transitionDuration, currentTime, isPlaying, audioEl,
                   mediaEvents, tempAudio, frame, bgAudio, mainAudioVolume,
                   export, lastToast>>
    /\ UNCHANGED <<session, recorderOptions>>

MaxDrag == 100       \* how far off the canvas the pointer takes an overlay

\* handleTextMouseMove while overlay k of clip i is dragged: the pointer
\* moved by (dx, dy) percent of the canvas since the last event
handleTextMouseMove(i, k, dx, dy) ==
    /\ i \in 1..Len(images)
    /\ k \in 1..Len(images[i].textOverlays)
    /\ LET ov == images[i].textOverlays[k]
       IN  /\ ov.x + dx \in (0 - MaxDrag)..(100 + MaxDrag)
           /\ ov.y + dy \in (0 - MaxDrag)..(100 + MaxDrag)
           /\ images' = [images EXCEPT ![i].textOverlays[k] =
                            [ov EXCEPT !.x = ov.x + dx, !.y = ov.y + dy]]
    /\ UNCHANGED <<imageElements, audioAsset, lyrics, transitionEffect,
                   transitionDuration, currentTime, isPlaying, audioEl,
                   mediaEvents, tempAudio, frame, bgAudio, mainAudioVolume,
                   export, lastToast>>
    /\ UNCHANGED <<session, recorderOptions>>

\* what the remote capability does with a request
RemoteOutcomes == {"ok", "nokey", "error"}

\* generateImageCaption: the text of the response, "Cool Vibes" when the
\* key is missing or the request fails (the catch block returns it)
generateImageCaption(outcome) ==
    IF outcome = "ok" THEN <<"H", "e", "y">>
    ELSE <<"C", "o", "o", "l", " ", "V", "i", "b", "e", "s">>

\* handleGenerateCaption with clip i selected, up to the await
HandleGenerateCaption(i) ==
    /\ i \in 1..Len(images)
    /\ captionJob = <<>>
    /\ Len(images[i].textOverlays) < MaxOverlays
    /\ captionJob' = << [id |-> images[i].id,
                         textOverlays |-> images[i].textOverlays] >>
    /\ lastToast' = "Analyzing image..."
    /\ UNCHANGED <<project, currentTime, isPlaying, audioEl, mediaEvents,
                   tempAudio, frame, bgAudio, mainAudioVolume, export, frames,
                   storage, isSyncingLyrics, vp9Supported, editing, recorderOptions>>

\* handleGenerateCaption after the await: the overlay is appended to the
\* overlays the clip had when the request was sent
CaptionReturns(outcome) ==
    /\ captionJob # <<>>
    /\ LET newOverlay == [text |-> generateImageCaption(outcome), x |-> 50,
                          y |-> 85, opacity |-> 100, animation |-> "fade",
                          animationDuration |-> 20]
       IN  images' = SetOverlays(images, captionJob[1].id,
                                 Append(captionJob[1].textOverlays, newOverlay))
    /\ lastToast' = "Caption generated!"
    /\ captionJob' = <<>>
    /\ UNCHANGED <<imageElements, audioAsset, lyrics, transitionEffect,
                   transitionDuration, currentTime, isPlaying, audioEl,
                   mediaEvents, tempAudio, frame, bgAudio, mainAudioVolume,
                   export, frames, storage, isSyncingLyrics, vp9Supported, editing,
                   recorderOptions>>

\* handleSyncLyrics, up to the await (the button is disabled without main
\* audio and while a transcription is in flight)
HandleSyncLyrics ==
    /\ audioAsset.present
    /\ ~isSyncingLyrics
    /\ isSyncingLyrics' = TRUE
    /\ lastToast' = "Transcribing audio..."
    /\ UNCHANGED <<project, currentTime, isPlaying, audioEl, mediaEvents,
                   tempAudio, frame, bgAudio, mainAudioVolume, export, frames,
                   storage, captionJob, vp9Supported, editing, recorderOptions>>

\* (variant: a catch block without the finally)
SyncFailedBusy ==
    /\ lastToast' = "Failed to sync lyrics."
    /\ UNCHANGED <<lyrics, isSyncingLyrics>>

\* handleSyncLyrics when generateLyrics throws: catch, finally
SyncFailed ==
    /\ lastToast' = "Failed to sync lyrics."
    /\ isSyncingLyrics' = FALSE
    /\ UNCHANGED lyrics

\* handleSyncLyrics after the await; generateLyrics returns the lines ls or
\* throws (key missing, request failed, response that is not JSON)
LyricsReturn(outcome, ls) ==
    /\ isSyncingLyrics
    /\ IF outcome = "ok"
       THEN /\ lyrics' = ls
            /\ lastToast' = "Lyrics synced!"
            /\ isSyncingLyrics' = FALSE
       ELSE SyncFailed
    /\ UNCHANGED <<images, imageElements, audioAsset, transitionEffect,
                   transitionDuration, currentTime, isPlaying, audioEl,
                   mediaEvents, tempAudio, frame, bgAudio, mainAudioVolume,
                   export, frames, storage, captionJob, vp9Supported, editing,
                   recorderOptions>>

----------------------------------------------------------------------------
(* Persistence: storageService and handleSave / handleLoad.  The project    *)
(* store holds at most one record, under KEY.  A value that may be missing  *)
(* is a sequence of length 0 or 1.                                           *)

\* (variant: the stored clips lose their text overlays)
StoredImagesBare(imgs) ==
    [i \in 1..Len(imgs) |-> [imgs[i] EXCEPT !.url = "", !.textOverlays = <<>>]]

\* imagesToStore = images.map(img => ({ ...img, url: '' }))
StoredImages(imgs) == [i \in 1..Len(imgs) |-> [imgs[i] EXCEPT !.url = ""]]

\* the StoredData record saveProject puts under KEY
StoredData(imgs, audio, bg, bgVolume, subtitles, settings) ==
    [images |-> StoredImages(imgs), audioAsset |-> audio, bgAudioAsset |-> bg,
     bgMusicVolume |-> bgVolume, subtitles |-> subtitles,
     settings |-> << settings >>]

\* the settings handleSave passes to saveProject
ProjectSettings ==
    [resolution |-> resolution, frameRate |-> frameRate,
     transitionEffect |-> transitionEffect,
     transitionDuration |-> transitionDuration,
     mainAudioVolume |-> mainAudioVolume]

StorageOutcomes == {"ok", "error"}

\* handleSave; outcome "error": openDB or the put request fails
HandleSave(outcome) ==
    /\ outcome \in StorageOutcomes
    /\ IF outcome = "ok"
       THEN /\ saved' = << StoredData(images, audioAsset, bgAudioAsset,
                                      bgMusicVolume, lyrics, ProjectSettings) >>
            /\ lastToast' = "Saved!"
       ELSE /\ saved' = saved
            /\ lastToast' = "Save failed."
    /\ UNCHANGED <<project, currentTime, isPlaying, audioEl, mediaEvents,
                   tempAudio, frame, bgAudio, mainAudioVolume, export, frames,
                   resolution, frameRate, bgMusicVolume, remote, vp9Supported, editing,
                   recorderOptions>>

\* loadProject: the record read, with the object URLs of its clips created
\* again
loadProject(data) ==
    [data EXCEPT !.images =
        [i \in 1..Len(data.images) |-> [data.images[i] EXCEPT !.url = "load"]]]

\* audioRef.current.src = url; audioRef.current.load(), for a stored asset
LoadElement(el, asset) ==
    IF asset.present
    THEN [duration |-> asset.duration, paused |-> TRUE, currentTime |-> 0]
    ELSE el

\* p.images.forEach(img => imageElementsRef.current.set(img.id, new Image()))
RegisterImages(elems, imgs) ==
    LET ids == {imgs[i].id : i \in 1..Len(imgs)}
    IN  [id \in DOMAIN elems \cup ids |->
            IF id \in ids THEN "loading" ELSE elems[id]]

\* handleLoad when loadProject rejects
LoadRejected ==
    /\ lastToast' = "Load failed."
    /\ UNCHANGED <<project, audioEl, bgAudio, mainAudioVolume, speakersGain,
                   resolution, frameRate, bgMusicVolume>>

\* handleLoad when nothing is stored
LoadNothing ==
    /\ lastToast' = "No save."
    /\ UNCHANGED <<project, audioEl, bgAudio, mainAudioVolume, speakersGain,
                   resolution, frameRate, bgMusicVolume>>

\* handleLoad on a record without settings: setImages, setLyrics and
\* setBgMusicVolume were called when p.settings.resolution throws
LoadThrows(p) ==
    /\ images' = p.images
    /\ lyrics' = p.subtitles
    /\ bgMusicVolume' = p.bgMusicVolume
    /\ lastToast' = "Load failed."
    /\ UNCHANGED <<imageElements, audioAsset, transitionEffect,
                   transitionDuration, audioEl, bgAudio, mainAudioVolume,
                   speakersGain, resolution, frameRate>>

\* handleLoad on a complete record; the initAudioContext it defers by 500 ms
\* is taken with it
LoadAll(p) ==
    LET settings == p.settings[1] IN
    /\ images' = p.images
    /\ lyrics' = p.subtitles
    /\ bgMusicVolume' = p.bgMusicVolume
    /\ resolution' = settings.resolution
    /\ frameRate' = settings.frameRate
    /\ transitionEffect' = settings.transitionEffect
    /\ transitionDuration' = settings.transitionDuration
    /\ mainAudioVolume' = settings.mainAudioVolume
    /\ imageElements' = RegisterImages(imageElements, p.images)
    /\ audioAsset' = IF p.audioAsset.present THEN p.audioAsset ELSE audioAsset
    /\ audioEl' = LoadElement(audioEl, p.audioAsset)
    /\ bgAudioAsset' = IF p.bgAudioAsset.present THEN p.bgAudioAsset
                       ELSE bgAudioAsset
    /\ bgEl' = LoadElement(bgEl, p.bgAudioAsset)
    /\ speakersGain' = initAudioContext(speakersGain)
    /\ lastToast' = "Loaded!"
    /\ UNCHANGED tempBgAudio

\* handleLoad; outcome "error": openDB or the get request fails
HandleLoad(outcome) ==
    /\ outcome \in StorageOutcomes
    /\ IF outcome = "error" THEN LoadRejected
       ELSE IF saved = <<>> THEN LoadNothing
       ELSE IF saved[1].settings = <<>> THEN LoadThrows(loadProject(saved[1]))
       ELSE LoadAll(loadProject(saved[1]))
    /\ UNCHANGED <<currentTime, isPlaying, mediaEvents, tempAudio, frame,
                   appState, recorder, exportTimer, onended, downloads, frames,
                   saved, remote, vp9Supported, editing, recorderOptions>>

----------------------------------------------------------------------------
(* Export.  The timeout of handleExport is armed with a delay and fires at  *)
(* some later step; how much wall time the other steps take is not modelled. *)

\* speakersGainNodeRef.current.gain.value = v, when the node exists
SetGain(gain, v) == IF gain = NoNode THEN gain ELSE v

\* the steps of the try block of handleExport that can throw
SetupSteps == {"captureStream", "MediaStream", "MediaRecorder"}
ExportOutcomes == {"ok", "start"} \cup SetupSteps

\* (variant: a catch block that leaves the monitoring gain muted)
ExportFailedMuted(main, bg, time) ==
    /\ appState' = "READY"
    /\ speakersGain' = SetGain(speakersGain, 0)
    /\ lastToast' = "Export failed."
    /\ isPlaying' = FALSE
    /\ audioEl' = main
    /\ bgEl' = bg
    /\ currentTime' = time
    /\ mediaEvents' = mediaEvents \o PauseEvents(audioEl)
    /\ UNCHANGED <<recorder, exportTimer, onended>>

\* the catch block of handleExport, with the elements and the time as the
\* try block left them
ExportFailed(main, bg, time) ==
    /\ appState' = "READY"
    /\ speakersGain' = SetGain(speakersGain, 1)
    /\ lastToast' = "Export failed."
    /\ isPlaying' = FALSE
    /\ audioEl' = main
    /\ bgEl' = bg
    /\ currentTime' = time
    /\ mediaEvents' = mediaEvents \o PauseEvents(audioEl)
    /\ UNCHANGED <<recorder, exportTimer, onended>>

\* (variant: the timeout armed with the main audio's duration)
TimerDelayAudio(audio, imgs) == IF audio.present THEN audio.duration ELSE 0

\* the delay of the timeout that ends an export without main audio
TimerDelay(audio, imgs) == totalDuration(audio, imgs)

\* (variant: the tiers of the two frame rates exchanged)
BitrateSwapped(res, fps) ==
    IF res = "1080p" THEN (IF fps = 60 THEN 5000000 ELSE 8000000)
    ELSE (IF fps = 60 THEN 2500000 ELSE 3500000)

\* let bitrate = resolution === '1080p' ? (frameRate === 60 ? 8000000 : 5000000)
\*                                        : (frameRate === 60 ? 3500000 : 2500000)
Bitrate(res, fps) ==
    IF res = "1080p" THEN (IF fps = 60 THEN 8000000 ELSE 5000000)
    ELSE (IF fps = 60 THEN 3500000 ELSE 2500000)

\* the options handed to new MediaRecorder: vp9 with the bitrate of the
\* table, or plain webm with videoBitsPerSecond deleted
MediaRecorderOptions(res, fps, vp9) ==
    IF vp9
    THEN [mimeType |-> "video/webm;codecs=vp9",
          videoBitsPerSecond |-> Bitrate(res, fps)]
    ELSE [mimeType |-> "video/webm", videoBitsPerSecond |-> NoBitrate]

\* no MediaRecorder was constructed yet
NoOptions == [mimeType |-> "", videoBitsPerSecond |-> NoBitrate]

\* handleExport; outcome names the step of the try block that throws, if any
HandleExport(outcome) ==
    /\ appState # "EXPORTING"
    /\ ~(Len(images) = 0 /\ ~audioAsset.present)
    /\ Len(mediaEvents) + 2 <= MaxEvents
    /\ downloads' = 0
    /\ LET pausedMain == PauseElement(audioEl)
           pausedBg == PauseElement(bgEl)
           main == SeekElement(pausedMain, 0)
           bg == SeekElement(pausedBg, 0)
       IN  IF outcome \in SetupSteps
           THEN ExportFailed(pausedMain, pausedBg, currentTime)
           ELSE IF audioAsset.present
           THEN IF outcome = "start"
                THEN ExportFailed(main, bg, 0)
                ELSE /\ appState' = "EXPORTING"
                     /\ speakersGain' = SetGain(speakersGain, 0)
                     /\ currentTime' = 0
                     /\ recorder' = "recording"
                     /\ audioEl' = PlayElement(main)
                     /\ mediaEvents' = mediaEvents \o PauseEvents(audioEl)
                                                   \o PlayEvents(main)
                     /\ bgEl' = PlayElement(bg)
                     /\ isPlaying' = TRUE
                     /\ onended' = TRUE
                     /\ UNCHANGED <<exportTimer, lastToast>>
           ELSE IF outcome = "start"
                THEN ExportFailed(pausedMain, pausedBg, 0)
                ELSE /\ appState' = "EXPORTING"
                     /\ speakersGain' = SetGain(speakersGain, 0)
                     /\ currentTime' = 0
                     /\ recorder' = "recording"
                     /\ audioEl' = pausedMain
                     /\ mediaEvents' = mediaEvents \o PauseEvents(audioEl)
                     /\ bgEl' = pausedBg
                     /\ isPlaying' = TRUE
                     /\ exportTimer' = TimerDelay(audioAsset, images)
                     /\ UNCHANGED <<onended, lastToast>>
    /\ recorderOptions' =
           IF outcome \in SetupSteps THEN recorderOptions
           ELSE MediaRecorderOptions(resolution, frameRate, vp9Supported)
    /\ UNCHANGED <<project, tempAudio, frame, bgAudioAsset, tempBgAudio,
                   mainAudioVolume, session>>

\* the timeout armed by handleExport fires
ExportTimeout ==
    /\ exportTimer # NoTimer
    /\ exportTimer' = NoTimer
    /\ IF recorder = "recording"
       THEN recorder' = "stopping" /\ isPlaying' = FALSE
       ELSE UNCHANGED <<recorder, isPlaying>>
    /\ UNCHANGED <<project, currentTime, audioEl, mediaEvents, tempAudio, frame,
                   bgAudio, mainAudioVolume, appState, speakersGain, onended,
                   downloads, lastToast>>
    /\ UNCHANGED <<session, recorderOptions>>

\* recorder.onstop
RecorderOnStop ==
    /\ recorder = "stopping"
    /\ recorder' = "none"
    /\ downloads' = downloads + 1
    /\ appState' = "READY"
    /\ lastToast' = "Exported!"
    /\ speakersGain' = SetGain(speakersGain, 1)
    /\ UNCHANGED <<project, currentTime, isPlaying, audioEl, mediaEvents,
                   tempAudio, frame, bgAudio, mainAudioVolume, exportTimer,
                   onended>>
    /\ UNCHANGED <<session, recorderOptions>>

----------------------------------------------------------------------------
(* The editor as a state machine *)

\* the <audio> element without a source
NoSource == [duration |-> 0, paused |-> TRUE, currentTime |-> 0]

\* the export state and the settings of a freshly mounted App
NoExport ==
    /\ appState = "IDLE"
    /\ recorder = "none"
    /\ exportTimer = NoTimer
    /\ onended = FALSE
    /\ downloads = 0
    /\ lastToast = ""
    /\ mainAudioVolume = DefaultMainAudioVolume
    /\ recorderOptions = NoOptions

\* the frame requested by the render-loop effect on mount
FirstFrame == [id |-> 1, old |-> FALSE]

\* a freshly mounted App: the loop is installed, nothing is stored, the
\* output settings have their defaults, no remote request is in flight
\* no clip is dragged on the timeline and the crop editor is closed
NotEditing ==
    /\ draggedIndex = <<>>
    /\ dragging = FALSE
    /\ editingImageId = <<>>
    /\ tempCrop = DefaultCrop

Mounted ==
    /\ NotEditing
    /\ rafPending = {FirstFrame}
    /\ animationFrameRef = FirstFrame.id
    /\ mounted = TRUE
    /\ saved = <<>>
    /\ resolution = "720p"
    /\ frameRate = DefaultFrameRate
    /\ bgMusicVolume = DefaultBgMusicVolume
    /\ vp9Supported = TRUE
    /\ isSyncingLyrics = FALSE
    /\ captionJob = <<>>

Init ==
    /\ images = <<>>
    /\ imageElements = << >>
    /\ audioAsset = NullAsset
    /\ lyrics = <<>>
    /\ transitionEffect = "none"
    /\ transitionDuration = DefaultTransitionDuration
    /\ currentTime = 0
    /\ isPlaying = FALSE
    /\ audioEl = [duration |-> 0, paused |-> TRUE, currentTime |-> 0]
    /\ mediaEvents = <<>>
    /\ tempAudio = 0
    /\ frame = NoFrame
    /\ NoExport
    /\ bgAudioAsset = NullAsset
    /\ bgEl = NoSource
    /\ tempBgAudio = 0
    /\ speakersGain = NoNode
    /\ Mounted

Next ==
    \/ \E dt \in TickSteps : Tick(dt)
    \/ TogglePlay
    \/ \E time \in SeekTimes : HandleSeek(time)
    \/ \E d \in UploadDurations : HandleAudioUpload(d)
    \/ AudioLoadedMetadata
    \/ \E k \in 1..MaxClips : ProcessFiles(k)
    \/ \E id \in 1..MaxClips : ImageLoaded(id)
    \/ \E d \in AudioSteps : AudioAdvance(d)
    \/ OnMediaEvent

\* playback and seeking in a project that grows
Spec == Init /\ [][Next]_vars

\* editing the clips of a project
EditNext ==
    \/ \E k \in 1..MaxClips : ProcessFiles(k)
    \/ \E id \in 1..MaxClips : ImageLoaded(id)
    \/ \E i \in 1..MaxClips, d \in DurationEdits : UpdateDuration(i, d)
    \/ \E d \in UploadDurations : HandleAudioUpload(d)
    \/ AudioLoadedMetadata
    \/ \E time \in SeekTimes : HandleSeek(time)

EditSpec == Init /\ [][EditNext]_vars

\* what the user can do before and during an export
ExportUser ==
    \/ TogglePlay
    \/ \E time \in SeekTimes : HandleSeek(time)
    \/ \E d \in UploadDurations : HandleAudioUpload(d)
    \/ ProcessFiles(MaxClips)
    \/ \E v \in Volumes : SetMainAudioVolume(v)
    \/ \E outcome \in ExportOutcomes : HandleExport(outcome)

\* the callbacks the browser runs: frame callbacks, media progress and
\* events, the metadata of an uploaded file, the export timeout, the
\* recorder's stop event
ExportBrowser ==
    \/ \E dt \in ExportTickSteps : Tick(dt)
    \/ \E d \in AudioSteps : AudioAdvance(d)
    \/ OnMediaEvent
    \/ AudioLoadedMetadata
    \/ ExportTimeout
    \/ RecorderOnStop

ExportNext == ExportUser \/ ExportBrowser

\* exporting, without background music
ExportSpec == Init /\ [][ExportNext]_vars

\* the same, where no callback of the browser is put off for ever
FairExportSpec ==
    /\ ExportSpec
    /\ WF_vars(\E dt \in ExportTickSteps : Tick(dt))
    /\ WF_vars(\E d \in AudioSteps : AudioAdvance(d))
    /\ WF_vars(OnMediaEvent)
    /\ WF_vars(AudioLoadedMetadata)
    /\ WF_vars(ExportTimeout)
    /\ WF_vars(RecorderOnStop)

\* exporting with background music
BgExportNext ==
    \/ TogglePlay
    \/ \E time \in SeekTimes : HandleSeek(time)
    \/ ProcessFiles(MaxClips)
    \/ \E d \in UploadDurations : HandleAudioUpload(d)
    \/ AudioLoadedMetadata
    \/ \E d \in BgUploadDurations : HandleBgAudioUpload(d)
    \/ BgAudioLoadedMetadata
    \/ RemoveBgAudio
    \/ HandleExport("ok")
    \/ \E dt \in ExportTickSteps : Tick(dt)
    \/ \E d \in AudioSteps : AudioAdvance(d)
    \/ OnMediaEvent
    \/ ExportTimeout
    \/ RecorderOnStop

BgExportSpec == Init /\ [][BgExportNext]_vars

----------------------------------------------------------------------------
(* The render-loop effect.  A frame is a requested callback: its handle and  *)
(* whether the loop it belongs to was already cleaned up.  React runs the    *)
(* cleanup and the effect again after a render in which drawCanvas,          *)
(* isPlaying, audioAsset or totalDuration changed; here it may do so after   *)
(* any step.                                                                 *)

MaxFrameIds == 3     \* handles told apart

FrameIds == 1..MaxFrameIds

FrameIdsOf(pending) == {f.id : f \in pending}

\* requestAnimationFrame(loop): a handle never returned before, named by the
\* least value that is neither pending nor held by animationFrameRef
requestAnimationFrame(used) ==
    CHOOSE id \in FrameIds \ used : \A j \in FrameIds \ used : id <= j

\* (variant: the handle of the request is not kept)
StoreFrameDropped(ref, id) == ref

\* animationFrameRef.current = requestAnimationFrame(loop)
StoreFrame(ref, id) == id

\* if (animationFrameRef.current) cancelAnimationFrame(animationFrameRef.current)
cancelAnimationFrame(pending, ref) == {f \in pending : f.id # ref}

\* the browser runs a pending frame callback: the body of `loop`, then the
\* request of the next frame of the same loop, which is not reached when
\* drawCanvas throws
FrameCallback(dt) ==
    \E f \in rafPending :
        LET used == FrameIdsOf(rafPending) \cup {animationFrameRef}
            id == requestAnimationFrame(used)
        IN  /\ FrameIds \ used # {}
            /\ loop(dt)
            /\ IF frame'.threw
               THEN /\ rafPending' = rafPending \ {f}
                    /\ UNCHANGED animationFrameRef
               ELSE /\ rafPending' =
                           (rafPending \ {f}) \cup {[id |-> id, old |-> f.old]}
                    /\ animationFrameRef' = StoreFrame(animationFrameRef, id)
            /\ UNCHANGED <<mounted, storage, remote, vp9Supported, editing, recorderOptions>>

\* the cleanup of the render-loop effect: what stays pending belongs to a
\* loop that was cleaned up
Cleanup == {[f EXCEPT !.old = TRUE] :
               f \in cancelAnimationFrame(rafPending, animationFrameRef)}

\* the effect is run again: the cleanup of the old loop, then the first
\* request of the new one
RunEffect ==
    LET used == FrameIdsOf(Cleanup) \cup {animationFrameRef}
        id == requestAnimationFrame(used)
    IN  /\ mounted
        /\ FrameIds \ used # {}
        /\ rafPending' = Cleanup \cup {[id |-> id, old |-> FALSE]}
        /\ animationFrameRef' = StoreFrame(animationFrameRef, id)
        /\ UNCHANGED <<project, currentTime, isPlaying, audioEl, mediaEvents,
                       tempAudio, frame, bgAudio, mainAudioVolume, export,
                       lastToast, mounted, storage, remote, vp9Supported, editing,
                       recorderOptions>>

\* the App view is torn down: the cleanup alone
Unmount ==
    /\ mounted
    /\ mounted' = FALSE
    /\ rafPending' = Cleanup
    /\ UNCHANGED <<project, currentTime, isPlaying, audioEl, mediaEvents,
                   tempAudio, frame, bgAudio, mainAudioVolume, export,
                   lastToast, animationFrameRef, storage, remote, vp9Supported, editing,
                   recorderOptions>>

LoopNext ==
    \/ \E dt \in TickSteps : FrameCallback(dt)
    \/ RunEffect
    \/ Unmount
    \/ mounted /\ TogglePlay
    \/ mounted /\ ProcessFiles(MaxClips)
    \/ mounted /\ \E time \in SeekTimes : HandleSeek(time)

\* the render loop over the life of the view, without audio
LoopSpec == Init /\ [][LoopNext]_vars

----------------------------------------------------------------------------
(* The compositor applied to bounded inputs.  The project is drawn from one  *)
(* of four families and the global time from 0..totalDuration; the driver is *)
(* stopped, so that the only step is a frame callback that repaints.         *)

SeqsUpTo(S, n) == UNION {[1..m -> S] : m \in 0..n}

ClipDurations == {3, 4}
TransitionDurations == {0, 1, 2}
AudioDurations == {2, 9}

Clip(i, d, ovs) == [id |-> i, duration |-> d, textOverlays |-> ovs]

\* a clip sequence with the given durations, every clip carrying overlays ovs
Clips(ds, ovs) == [i \in 1..Len(ds) |-> Clip(i, ds[i], ovs)]

Stopped ==
    /\ isPlaying = FALSE
    /\ audioEl = [duration |-> IF audioAsset.present THEN audioAsset.duration ELSE 0,
                  paused |-> TRUE,
                  currentTime |-> Min(currentTime,
                                      IF audioAsset.present THEN audioAsset.duration
                                      ELSE 0)]
    /\ mediaEvents = <<>>
    /\ tempAudio = 0
    /\ frame = NoFrame
    /\ NoExport
    /\ bgAudioAsset = NullAsset
    /\ bgEl = NoSource
    /\ tempBgAudio = 0
    /\ speakersGain = IF audioAsset.present THEN 1 ELSE NoNode
    /\ Mounted

\* clips, load status, main audio and transition settings vary
ClockInit ==
    /\ \E ds \in SeqsUpTo(ClipDurations, MaxClips) : images = Clips(ds, <<>>)
    /\ imageElements \in [1..Len(images) -> {"loading", "complete"}]
    /\ audioAsset \in {NullAsset} \cup {Asset(d) : d \in AudioDurations}
    /\ lyrics = <<>>
    /\ transitionEffect \in Effects
    /\ transitionDuration \in TransitionDurations
    /\ currentTime \in 0..totalDuration(audioAsset, images)
    /\ Stopped

\* Scenario A: clips of 4 s and 6 s, no audio, transitionDuration 1 s
ScenarioAInit ==
    /\ images = Clips(<<40, 60>>, <<>>)
    /\ imageElements = [i \in 1..2 |-> "complete"]
    /\ audioAsset = NullAsset
    /\ lyrics = <<>>
    /\ transitionEffect \in Effects \ {"none"}
    /\ transitionDuration = 10
    /\ currentTime \in 0..totalDuration(audioAsset, images)
    /\ Stopped

Segments ==
    { [startTime |-> 20, endTime |-> 40, text |-> "Hello"],
      [startTime |-> 30, endTime |-> 50, text |-> "over"],
      [startTime |-> 40, endTime |-> 60, text |-> "next"] }

\* the subtitle list varies, over clips that end before, inside and after
\* the segments; lyrics come from a main audio asset (handleSyncLyrics)
LyricsInit ==
    /\ \E ds \in {<<>>, <<30>>, <<30, 40>>} : images = Clips(ds, <<>>)
    /\ imageElements = [i \in 1..Len(images) |-> "complete"]
    /\ audioAsset \in {Asset(45), Asset(80)}
    /\ lyrics \in SeqsUpTo(Segments, MaxLyrics)
    /\ transitionEffect = "none"
    /\ transitionDuration = DefaultTransitionDuration
    /\ currentTime \in 0..totalDuration(audioAsset, images)
    /\ Stopped

OverlayInputs ==
    [text : {<<"H", "e", "y">>}, opacity : {50, 100}, animation : Animations,
     animationDuration : {5, 20}]

\* the text overlays vary, on clips shorter and longer than the animation
OverlaysInit ==
    /\ \E ds \in SeqsUpTo({3, 8}, MaxClips), ovs \in SeqsUpTo(OverlayInputs, MaxOverlays) :
          /\ Len(ds) > 0
          /\ images = Clips(ds, ovs)
    /\ imageElements = [i \in 1..Len(images) |-> "complete"]
    /\ audioAsset = NullAsset
    /\ lyrics = <<>>
    /\ transitionEffect = "none"
    /\ transitionDuration = DefaultTransitionDuration
    /\ currentTime \in 0..totalDuration(audioAsset, images)
    /\ Stopped

\* clips whose files are still loading, with or without a text overlay, a
\* subtitle and a transition
DecodeInit ==
    /\ \E ds \in SeqsUpTo(ClipDurations, MaxClips),
          ovs \in {<<>>, << [text |-> <<"H", "e", "y">>, opacity |-> 100,
                             animation |-> "none", animationDuration |-> 5] >>} :
          /\ Len(ds) > 0
          /\ images = Clips(ds, ovs)
    /\ imageElements = [i \in 1..Len(images) |-> "loading"]
    /\ audioAsset = Asset(9)
    /\ lyrics \in {<<>>, << [startTime |-> 2, endTime |-> 5, text |-> "Hello"] >>}
    /\ transitionEffect \in {"none", "fade"}
    /\ transitionDuration = 2
    /\ currentTime \in 0..totalDuration(audioAsset, images)
    /\ Stopped

DecodeNext ==
    \/ \E id \in 1..MaxClips : ImageLoaded(id)
    \/ \E id \in 1..MaxClips : ImageError(id)
    \/ FrameCallback(0)
    \/ RunEffect

\* the compositor while the files of the clips load or fail to decode
DecodeSpec == DecodeInit /\ [][DecodeNext]_vars

\* Scenario C and its neighbours: no clip, or three clips of which clip c
\* carries a crop, adjustments (the Vintage preset) and a text overlay; the
\* store is empty or holds a record without settings, as a build without
\* project settings would have written it
PersistDurations == {<<30, 50, 40>>}

Vintage ==
    [brightness |-> 90, contrast |-> 90, saturation |-> 60, sepia |-> 60,
     grayscale |-> 0, blur |-> 0]

Caption ==
    [text |-> <<"H", "e", "y">>, x |-> 50, y |-> 85, opacity |-> 100,
     animation |-> "fade", animationDuration |-> 20]

ScenarioCClips(ds, c) ==
    [i \in 1..Len(ds) |->
        [id |-> i, url |-> "upload", duration |-> ds[i],
         crop |-> IF i = c THEN [x |-> 40, y |-> -20, scale |-> 150]
                  ELSE DefaultCrop,
         adjustments |-> IF i = c THEN Vintage ELSE DefaultAdjustments,
         textOverlays |-> IF i = c THEN << Caption >> ELSE <<>>]]

RecordWithoutSettings ==
    [images |-> StoredImages(ScenarioCClips(<<20>>, 1)),
     audioAsset |-> NullAsset, bgAudioAsset |-> NullAsset,
     bgMusicVolume |-> 50, subtitles |-> <<>>, settings |-> <<>>]

PersistInit ==
    /\ \/ images = <<>>
       \/ \E ds \in PersistDurations, c \in 1..3 : images = ScenarioCClips(ds, c)
    /\ imageElements = [i \in 1..Len(images) |-> "complete"]
    /\ audioAsset = NullAsset
    /\ lyrics = << [startTime |-> 20, endTime |-> 40, text |-> "Hello"] >>
    /\ transitionEffect = "none"
    /\ transitionDuration = DefaultTransitionDuration
    /\ currentTime = 0
    /\ isPlaying = FALSE
    /\ audioEl = [duration |-> IF audioAsset.present THEN audioAsset.duration ELSE 0,
                  paused |-> TRUE, currentTime |-> 0]
    /\ mediaEvents = <<>>
    /\ tempAudio = 0
    /\ frame = NoFrame
    /\ NoExport
    /\ bgAudioAsset \in {NullAsset, Asset(60)}
    /\ bgEl = [duration |-> IF bgAudioAsset.present THEN bgAudioAsset.duration ELSE 0,
               paused |-> TRUE, currentTime |-> 0]
    /\ tempBgAudio = 0
    /\ speakersGain = IF audioAsset.present \/ bgAudioAsset.present THEN 1 ELSE NoNode
    /\ rafPending = {FirstFrame}
    /\ animationFrameRef = FirstFrame.id
    /\ mounted = TRUE
    /\ saved \in {<<>>, << RecordWithoutSettings >>}
    /\ resolution = "720p"
    /\ frameRate = DefaultFrameRate
    /\ bgMusicVolume = DefaultBgMusicVolume
    /\ vp9Supported = TRUE
    /\ isSyncingLyrics = FALSE
    /\ captionJob = <<>>
    /\ NotEditing

BgVolumes == {20, 50}

PersistNext ==
    \/ \E outcome \in StorageOutcomes : HandleSave(outcome)
    \/ \E outcome \in StorageOutcomes : HandleLoad(outcome)
    \/ \E d \in DurationEdits : UpdateDuration(3, d)
    \/ moveSelectedImageOrder(1, "forward")
    \/ \E d \in UploadDurations : HandleAudioUpload(d)
    \/ AudioLoadedMetadata
    \/ RemoveBgAudio
    \/ \E v \in BgVolumes : SetBgMusicVolume(v)

DragSteps == {<<60, 0>>, <<0, -60>>}
Opacities == {50}

\* the output settings and the browser's support of vp9 vary, over projects
\* of one or two clips without audio
EncodeDurations == {30, 50}

EncodeInit ==
    /\ \E ds \in SeqsUpTo(EncodeDurations, MaxClips) :
          /\ Len(ds) > 0
          /\ images = Clips(ds, <<>>)
    /\ imageElements = [i \in 1..Len(images) |-> "complete"]
    /\ audioAsset = NullAsset
    /\ lyrics = <<>>
    /\ transitionEffect = "none"
    /\ transitionDuration = DefaultTransitionDuration
    /\ currentTime = 0
    /\ isPlaying = FALSE
    /\ audioEl = NoSource
    /\ mediaEvents = <<>>
    /\ tempAudio = 0
    /\ frame = NoFrame
    /\ NoExport
    /\ bgAudioAsset = NullAsset
    /\ bgEl = NoSource
    /\ tempBgAudio = 0
    /\ speakersGain = NoNode
    /\ rafPending = {FirstFrame}
    /\ animationFrameRef = FirstFrame.id
    /\ mounted = TRUE
    /\ saved = <<>>
    /\ resolution \in {"720p", "1080p"}
    /\ frameRate \in {30, 60}
    /\ bgMusicVolume = DefaultBgMusicVolume
    /\ vp9Supported \in BOOLEAN
    /\ isSyncingLyrics = FALSE
    /\ captionJob = <<>>
    /\ NotEditing

EncodeNext ==
    \/ \E outcome \in ExportOutcomes : HandleExport(outcome)
    \/ \E dt \in ExportTickSteps : Tick(dt)
    \/ ExportTimeout
    \/ RecorderOnStop

\* exporting under every output setting
EncodeSpec == EncodeInit /\ [][EncodeNext]_vars

\* three clips on the video track, one of them possibly 0.1 s long, with or
\* without a background track
TrackDurations == {<<30, 50, 40>>, <<30, 1, 40>>}

TrackInit ==
    /\ \E ds \in TrackDurations, c \in 1..3 : images = ScenarioCClips(ds, c)
    /\ imageElements = [i \in 1..Len(images) |-> "complete"]
    /\ audioAsset = NullAsset
    /\ lyrics = <<>>
    /\ transitionEffect = "none"
    /\ transitionDuration = DefaultTransitionDuration
    /\ currentTime = 0
    /\ isPlaying = FALSE
    /\ audioEl = NoSource
    /\ mediaEvents = <<>>
    /\ tempAudio = 0
    /\ frame = NoFrame
    /\ NoExport
    /\ bgAudioAsset \in {NullAsset, Asset(60)}
    /\ bgEl = [duration |-> IF bgAudioAsset.present THEN bgAudioAsset.duration ELSE 0,
               paused |-> TRUE, currentTime |-> 0]
    /\ tempBgAudio = 0
    /\ speakersGain = IF bgAudioAsset.present THEN 1 ELSE NoNode
    /\ Mounted

TrackNext ==
    \/ \E i \in 1..3 : jumpToImage(i)
    \/ \E time \in SeekTimes : TimelineSeek(time)
    \/ \E index \in 0..2 : handleDragStart(index)
    \/ \E dropIndex \in 0..2 : handleDrop(dropIndex)
    \/ DragCancelled
    \/ \E i \in 1..3, direction \in {"backward", "forward"} :
          moveSelectedImageOrder(i, direction)

\* seeking to clips and reordering them on the video track
TrackSpec == TrackInit /\ [][TrackNext]_vars

\* crops set in the crop editor: zoomed to 2, and reset
CropEdits == {[x |-> 0, y |-> 0, scale |-> 200], DefaultCrop}

CropNext ==
    \/ \E i \in 1..3 : AdvancedCrop(i)
    \/ \E c \in CropEdits : SetTempCrop(c)
    \/ saveCrop
    \/ closeCropModal

\* the crop editor on three clips, one of them cropped before
CropSpec == TrackInit /\ [][CropNext]_vars

\* text overlays: created, captioned, edited and dragged
TextNext ==
    \/ ProcessFiles(1)
    \/ \E i \in 1..MaxClips : addTextToSelected(i)
    \/ \E i \in 1..MaxClips : HandleGenerateCaption(i)
    \/ \E outcome \in RemoteOutcomes : CaptionReturns(outcome)
    \/ \E i \in 1..MaxClips, k \in 1..MaxOverlays, v \in Opacities :
          SetOverlayOpacity(i, k, v)
    \/ \E i \in 1..MaxClips, k \in 1..MaxOverlays, d \in DragSteps :
          handleTextMouseMove(i, k, d[1], d[2])

TextSpec == Init /\ [][TextNext]_vars

\* transcriptions of the main audio
LyricsNext ==
    \/ \E d \in UploadDurations : HandleAudioUpload(d)
    \/ AudioLoadedMetadata
    \/ HandleSyncLyrics
    \/ \E outcome \in RemoteOutcomes, ls \in SeqsUpTo(Segments, MaxLyrics) :
          LyricsReturn(outcome, ls)
    \/ \E time \in SeekTimes : HandleSeek(time)
    \/ \E dt \in TickSteps : Tick(dt)

LyricsSpec == Init /\ [][LyricsNext]_vars

\* saving, editing and loading a project
PersistSpec == PersistInit /\ [][PersistNext]_vars

CompInit == ClockInit \/ ScenarioAInit \/ LyricsInit \/ OverlaysInit

\* a frame callback while the driver is stopped: it repaints the canvas
Repaint == ~isPlaying /\ Tick(0)

CompSpec == CompInit /\ [][Repaint]_vars

----------------------------------------------------------------------------
(* Uninterrupted playback: the project and the time at which the driver is   *)
(* (or is not) playing are drawn from bounded sets, and from then on only    *)
(* the browser acts: frame callbacks, media progress and media events, none  *)
(* of them put off for ever.                                                 *)

PlayDurations == {30, 50}

PlayInit ==
    /\ \E ds \in SeqsUpTo(PlayDurations, MaxClips) : images = Clips(ds, <<>>)
    /\ imageElements = [i \in 1..Len(images) |-> "complete"]
    /\ audioAsset \in {NullAsset} \cup {Asset(d) : d \in UploadDurations}
    /\ lyrics = <<>>
    /\ transitionEffect = "none"
    /\ transitionDuration = DefaultTransitionDuration
    /\ currentTime \in 0..totalDuration(audioAsset, images)
    /\ isPlaying \in BOOLEAN
    /\ isPlaying /\ audioAsset.present => currentTime < audioAsset.duration
    /\ audioEl = IF audioAsset.present
                 THEN [duration |-> audioAsset.duration, paused |-> ~isPlaying,
                       currentTime |-> Min(currentTime, audioAsset.duration)]
                 ELSE NoSource
    /\ mediaEvents = <<>>
    /\ tempAudio = 0
    /\ frame = NoFrame
    /\ NoExport
    /\ bgAudioAsset = NullAsset
    /\ bgEl = NoSource
    /\ tempBgAudio = 0
    /\ speakersGain = IF audioAsset.present THEN 1 ELSE NoNode
    /\ Mounted

PlayNext ==
    \/ \E dt \in TickSteps : Tick(dt)
    \/ \E d \in AudioSteps : AudioAdvance(d)
    \/ OnMediaEvent

PlaySpec ==
    /\ PlayInit
    /\ [][PlayNext]_vars
    /\ WF_vars(\E dt \in TickSteps : Tick(dt))
    /\ WF_vars(\E d \in AudioSteps : AudioAdvance(d))
    /\ WF_vars(OnMediaEvent)

----------------------------------------------------------------------------
(* Properties.  In CompSpec the project never changes, so a drawn frame is  *)
(* the compositor's output for the current project at time frame.t.         *)

AudioDuration == IF audioAsset.present THEN audioAsset.duration ELSE 0
LastIndex == Len(images) - 1
FrameClip == images[frame.activeIndex + 1]
CumulativeStart(i) == SumDurations(images, i)
FrameLocalTime == frame.t - CumulativeStart(frame.activeIndex)
Active == frame.drawn /\ frame.activeIndex # -1
Complete(i) == imageElements[images[i + 1].id] = "complete"

\* C1 (as claimed): totalDuration is max(main audio duration, sum of clip
\* durations), and is the 10-second floor only when both are zero.
C1_TotalDurationIsMax ==
    totalDuration(audioAsset, images) =
        IF AudioDuration = 0 /\ totalImageDuration(images) = 0
        THEN DefaultTotalDuration
        ELSE Max(AudioDuration, totalImageDuration(images))

\* C2 (as claimed): for a non-empty clip sequence and 0 <= t <= totalDuration
\* the compositor resolves exactly one active clip, and t is the cumulative
\* start of that clip plus the local time; an empty sequence has none.
C2_ClockRoundTrip ==
    frame.drawn =>
        IF Len(images) = 0 THEN frame.activeIndex = -1
        ELSE /\ frame.activeIndex \in 0..LastIndex
             /\ FrameLocalTime \in 0..(FrameClip.duration - 1)
             /\ frame.t = CumulativeStart(frame.activeIndex)
                          + (frame.t - frame.activeImageStartTime)

\* C3 (as claimed): from the sum of the clip durations on, both resolvers give
\* the last clip, and at every time getActiveImageIndex and the compositor
\* resolve the same index.
C3_ResolversAgree ==
    frame.drawn /\ Len(images) > 0 =>
        /\ frame.activeIndex = getActiveImageIndex(images, frame.t)
        /\ frame.t >= totalImageDuration(images) => frame.activeIndex = LastIndex

\* twice the start of the transition window [d - min(td, d/2), d) of a clip
WindowStart2(d) == 2 * d - Min(2 * transitionDuration, d)
WindowLength2(d) == Min(2 * transitionDuration, d)

InTransitionWindow ==
    /\ 2 * FrameLocalTime >= WindowStart2(FrameClip.duration)
    /\ FrameLocalTime < FrameClip.duration

\* the layers painted, given the layers asked for: those of complete images
Painted(asked) == SelectSeq(asked, LAMBDA l : Complete(l.idx))

\* C4: for the active clip at local time l the transition is active iff an
\* effect other than 'none' is configured, the clip is not the last one and
\* l is in [d - min(transitionDuration, d/2), d); otherwise the active clip's
\* layer alone is painted, at opacity 1.
C4_TransitionWindow ==
    Active =>
        /\ frame.it <=> /\ transitionEffect # "none"
                        /\ frame.activeIndex # LastIndex
                        /\ InTransitionWindow
        /\ ~frame.it =>
              frame.layers = Painted(<< [idx |-> frame.activeIndex, alpha |-> <<1, 1>>] >>)

C4_Witness ==
    /\ Active
    /\ frame.it
    /\ 2 * FrameLocalTime = WindowStart2(FrameClip.duration)
    /\ Len(frame.layers) = 2

\* the frame the compositor paints for the current project at time t under
\* transition effect e
FrameAt(t, e) ==
    drawCanvas(images, imageElements, audioAsset, lyrics, e, transitionDuration, t)

\* C5: while a transition is active its progress is (time elapsed in the
\* window) / (window length), within [0,1], 0 at the window start and
\* non-decreasing in t; the active clip is painted at opacity 1 and the next
\* clip on top of it at opacity = progress, the same for fade, slide and zoom.
C5_TransitionProgress ==
    Active /\ frame.it =>
        LET d == FrameClip.duration
            elapsed2 == 2 * FrameLocalTime - WindowStart2(d)
            \* the active clip at opacity 1, the next clip above it at the
            \* ratio elapsed / window length
            shown == Painted(<< [idx |-> frame.activeIndex, alpha |-> <<1, 1>>],
                                [idx |-> frame.activeIndex + 1,
                                 alpha |-> <<elapsed2, WindowLength2(d)>>] >>)
        IN  /\ FracEq(frame.p, <<elapsed2, WindowLength2(d)>>)
            /\ FracLe(<<0, 1>>, frame.p) /\ FracLe(frame.p, <<1, 1>>)
            /\ elapsed2 = 0 => frame.p[1] = 0
            /\ \A t2 \in frame.t..(CumulativeStart(frame.activeIndex) + d - 1) :
                  /\ FrameAt(t2, transitionEffect).it
                  /\ FracLe(frame.p, FrameAt(t2, transitionEffect).p)
            /\ Len(frame.layers) = Len(shown)
            /\ \A k \in 1..Len(shown) :
                  /\ frame.layers[k].idx = shown[k].idx
                  /\ FracEq(frame.layers[k].alpha, shown[k].alpha)
            /\ \A e \in Effects \ {"none"} : FrameAt(frame.t, e) = frame

C5_Witness ==
    /\ Active
    /\ frame.it
    /\ transitionEffect = "slide"
    /\ 0 < frame.p[1] /\ frame.p[1] < frame.p[2]
    /\ Len(frame.layers) = 2
    /\ 2 * transitionDuration > FrameClip.duration

IsScenarioA ==
    /\ images = Clips(<<40, 60>>, <<>>)
    /\ ~audioAsset.present
    /\ transitionEffect # "none"
    /\ transitionDuration = 10

\* Scenario A with the given transition progress at t = 3.6 s
ScenarioA(progress) ==
    IsScenarioA =>
        /\ totalDuration(audioAsset, images) = 100
        /\ frame.drawn /\ frame.t = 95 =>
              /\ frame.activeIndex = 1
              /\ ~frame.it
              /\ frame.layers = << [idx |-> 1, alpha |-> <<1, 1>>] >>
        /\ frame.drawn /\ frame.t = 36 =>
              /\ frame.activeIndex = 0
              /\ frame.it
              /\ FracEq(frame.p, progress)

\* C6 (as claimed): Scenario A: totalDuration is 10 s; at t = 9.5 s clip 1 is
\* active without transition; at t = 3.6 s clip 0 is active, the transition
\* is active and its progress is 0.4.
C6_ScenarioA_AsClaimed == ScenarioA(<<4, 10>>)

\* C6 (amended): as above, with transition progress 0.6 at t = 3.6 s.
C6_ScenarioA == ScenarioA(<<6, 10>>)

C6_Witness ==
    /\ IsScenarioA
    /\ frame.drawn
    /\ frame.t = 36
    /\ frame.it
    /\ Len(frame.layers) = 2

\* the half-open interval [startTime, endTime) of a subtitle segment
Contains(seg, t) == seg.startTime <= t /\ t < seg.endTime

\* C7 (as claimed): a subtitle is drawn at time t iff t is in [start, end),
\* whichever clip is active and also past the last clip.
C7_SubtitleHalfOpen ==
    frame.drawn =>
        /\ frame.currentLyric # <<>> => Contains(frame.currentLyric[1], frame.t)
        /\ (\E k \in 1..Len(lyrics) : Contains(lyrics[k], frame.t))
              => frame.currentLyric # <<>>

\* C8 (as claimed): at most one subtitle is drawn per frame, the first
\* segment in list order whose interval [start, end) contains the time.
C8_FirstContainingSegment ==
    frame.drawn =>
        LET hits == {k \in 1..Len(lyrics) : Contains(lyrics[k], frame.t)}
        IN  /\ Len(frame.currentLyric) <= 1
            /\ frame.currentLyric =
                  IF hits = {} THEN <<>>
                  ELSE << lyrics[CHOOSE k \in hits : \A j \in hits : k <= j] >>

\* C9: the progress of every text overlay of the active clip is
\* clamp(local elapsed time / animationDuration, 0, 1), a function of the
\* clip-local time alone, within [0,1] and non-decreasing in local time; the
\* typewriter's visible length is non-decreasing and at most the text length.
C9_OverlayProgress ==
    Active =>
        /\ Len(frame.texts) = Len(FrameClip.textOverlays)
        /\ \A k \in 1..Len(FrameClip.textOverlays) :
              LET ov == FrameClip.textOverlays[k]
                  tx == frame.texts[k]
                  l == FrameLocalTime
              IN  /\ FracEq(tx.progress,
                            <<Min(Max(l, 0), ov.animationDuration), ov.animationDuration>>)
                  /\ FracLe(<<0, 1>>, tx.progress) /\ FracLe(tx.progress, <<1, 1>>)
                  /\ Len(tx.renderText) <= Len(ov.text)
                  /\ \A l2 \in l..(FrameClip.duration - 1) :
                        LET tx2 == FrameAt(CumulativeStart(frame.activeIndex) + l2,
                                           transitionEffect).texts[k]
                        IN  /\ FracLe(tx.progress, tx2.progress)
                            /\ Len(tx.renderText) <= Len(tx2.renderText)

C9_Witness ==
    /\ Active
    /\ frame.activeIndex >= 1
    /\ \E k \in 1..Len(frame.texts) :
          /\ FrameClip.textOverlays[k].animation = "typewriter"
          /\ 0 < Len(frame.texts[k].renderText)
          /\ Len(frame.texts[k].renderText) < Len(FrameClip.textOverlays[k].text)

\* a frame callback while playing with a main audio asset whose element is
\* not paused takes the element's position; one while stopped keeps the time
TickAudioAndStopped ==
    /\ isPlaying /\ audioAsset.present /\ ~audioEl.paused
          => currentTime' = audioEl.currentTime
    /\ ~isPlaying => currentTime' = currentTime

ExportEnded ==
    /\ recorder = "none"
    /\ appState = "READY"
    /\ downloads = 1
    /\ speakersGain \in {NoNode, 1}

\* C12 (as claimed): every export that starts recording eventually ends (the
\* recorder is stopped, the file is offered for download once, the monitoring
\* gain is back to 1 and the app state is READY), whatever the user does
\* during the export.
C12_ExportEnds == (recorder = "recording") ~> ExportEnded

\* C13 (as claimed): whenever the monitoring gain node exists its gain is 0
\* iff the app state is EXPORTING, and 1 otherwise; and no step that starts,
\* finishes or fails an export changes the main gain stage (which follows
\* mainAudioVolume).
C13_MonitoringGain ==
    /\ [](speakersGain # NoNode =>
             speakersGain = IF appState = "EXPORTING" THEN 0 ELSE 1)
    /\ [][(\/ \E outcome \in ExportOutcomes : HandleExport(outcome)
           \/ ExportTimeout
           \/ RecorderOnStop) => mainAudioVolume' = mainAudioVolume]_vars

\* C14: when a step of the export setup throws (stream capture, stream
\* combination, recorder construction, recorder start), handleExport leaves
\* the app READY, the monitoring gain (if the node exists) at 1 and an error
\* toast; no recorder records or is about to deliver a file, nothing is armed
\* to stop one, the driver is stopped and both elements are paused.
C14_SetupFailure ==
    [][\A outcome \in ExportOutcomes \ {"ok"} :
          HandleExport(outcome) =>
              /\ appState' = "READY"
              /\ speakersGain' = IF speakersGain = NoNode THEN NoNode ELSE 1
              /\ lastToast' = "Export failed."
              /\ recorder' = "none"
              /\ exportTimer' = NoTimer
              /\ ~onended'
              /\ downloads' = 0
              /\ ~isPlaying'
              /\ audioEl'.paused
              /\ bgEl'.paused
      ]_vars

C14_Witness ==
    /\ lastToast = "Export failed."
    /\ appState = "READY"
    /\ audioAsset.present
    /\ speakersGain = 1
    /\ recorder = "none"
    /\ downloads = 0
    /\ ~isPlaying
    /\ mediaEvents = <<"pause">>

\* C15 (as claimed): Scenario D: in a project with no clips and no audio an
\* export can be started; it enters EXPORTING with the recorder recording
\* and the timeout armed for totalDuration = 10 s.
C15_ScenarioD ==
    /\ [](images = <<>> /\ ~audioAsset.present /\ appState # "EXPORTING"
             /\ mediaEvents = <<>>
          => ENABLED HandleExport("ok"))
    /\ [][HandleExport("ok") /\ images = <<>> /\ ~audioAsset.present =>
             /\ appState' = "EXPORTING"
             /\ recorder' = "recording"
             /\ exportTimer' = DefaultTotalDuration
         ]_vars

\* an export without main audio is recording: its timeout is pending
TimedExport == recorder = "recording" /\ exportTimer # NoTimer

\* C16: an export started without main audio arms a timeout for the
\* totalDuration of that moment; while its recorder records, the timeout stays
\* pending with that delay whatever else happens (pause, seek, the tick loop
\* rewinding at the end of the timeline, uploads), the recorder is stopped by
\* the timeout firing and by no other step, and no timeout is pending once
\* the recorder has stopped, so that it is stopped exactly once.
C16_TimerStopsRecorder ==
    /\ [][HandleExport("ok") /\ ~audioAsset.present =>
             /\ recorder' = "recording"
             /\ exportTimer' = totalDuration(audioAsset, images)
             /\ ~onended'
         ]_vars
    /\ [][TimedExport =>
             \/ recorder' = "recording" /\ exportTimer' = exportTimer
             \/ ExportTimeout /\ recorder' = "stopping" /\ exportTimer' = NoTimer
         ]_vars
    /\ [](recorder = "recording" /\ ~onended => exportTimer # NoTimer)
    /\ [](recorder # "recording" => exportTimer = NoTimer)

C16_Witness ==
    /\ TimedExport
    /\ exportTimer = totalImageDuration(images)
    /\ ~isPlaying
    /\ currentTime = 0
    /\ frame.drawn
    /\ frame.t > 0

\* C17 (as claimed): while the app state is EXPORTING no step changes the
\* project settings (transition kind, transition duration, main audio
\* volume; resolution and frame rate are set together with the transition
\* settings only).
C17_SettingsFrozen ==
    [][appState = "EXPORTING" =>
          /\ transitionEffect' = transitionEffect
          /\ transitionDuration' = transitionDuration
          /\ mainAudioVolume' = mainAudioVolume
      ]_vars

\* C18 (as claimed): a step that starts an export's recording resets global
\* time and the positions of the loaded audio elements to 0, and while the
\* recorder records every loaded audio asset (main, background) is playing.
C18_AudioPlaysWhileRecording ==
    /\ [][HandleExport("ok") =>
             /\ currentTime' = 0
             /\ audioAsset.present => audioEl'.currentTime = 0
             /\ bgAudioAsset.present => bgEl'.currentTime = 0
         ]_vars
    /\ [](recorder = "recording" =>
             /\ audioAsset.present => ~audioEl.paused
             /\ bgAudioAsset.present => ~bgEl.paused)

\* C19 (as claimed): every clip has a positive duration.
C19_PositiveDurations ==
    \A i \in 1..Len(images) : images[i].duration > 0

\* C20 (as claimed): 0 <= global time <= totalDuration.
C20_TimeWithinTimeline ==
    /\ 0 <= currentTime
    /\ currentTime <= totalDuration(audioAsset, images)


----------------------------------------------------------------------------
\* C21: the tick loop is cancelable.  Once the cleanup of the render-loop
\* effect has run (the effect is run again, or the view is torn down) no
\* frame callback of the old loop is left to execute, and at most one frame
\* callback is pending in every reachable state; none after the teardown.
C21_LoopCancelable ==
    /\ Cardinality(rafPending) <= 1
    /\ \A f \in rafPending : ~f.old
    /\ ~mounted => rafPending = {}

\* the view was torn down while the loop was playing, after frames were
\* painted and the effect had been run again
C21_Witness ==
    /\ ~mounted
    /\ isPlaying
    /\ frame.drawn
    /\ animationFrameRef # FirstFrame.id


C23_NeverThrows ==
    frame.drawn =>
        /\ ~frame.threw
        /\ Active => Len(frame.texts) = Len(FrameClip.textOverlays)
        /\ frame.currentLyric =
               (IF Len(lyrics) > 0 THEN FindLyric(lyrics, frame.t, 1) ELSE <<>>)


\* a clip sequence with its object URLs left out of consideration
WithoutUrls(imgs) == [i \in 1..Len(imgs) |-> [imgs[i] EXCEPT !.url = ""]]

WellFormed(stored) == stored # <<>> /\ stored[1].settings # <<>>

\* C24: the save/load round trip (Scenario C).  A successful save stores the
\* clips as they are, and a successful load of a complete record makes the
\* clips those of the record: same order, ids, durations, crop values,
\* adjustment values and text overlays; only the url handles are new.
C24_RoundTrip ==
    /\ [][HandleSave("ok") =>
             /\ saved' # <<>>
             /\ saved'[1].images = WithoutUrls(images)
             /\ images' = images]_vars
    /\ [][HandleLoad("ok") /\ WellFormed(saved) =>
             /\ WithoutUrls(images') = saved[1].images
             /\ \A i \in 1..Len(images') : images'[i].url = "load"]_vars

\* three clips were loaded from a record saved in this session, one of them
\* with a crop, adjustments and a text overlay, after the clips in memory
\* had been reordered and edited
C24_Witness ==
    /\ lastToast = "Loaded!"
    /\ Len(images) = 3
    /\ WellFormed(saved)
    /\ WithoutUrls(images) = saved[1].images
    /\ \A i \in 1..3 : images[i].url = "load"
    /\ images[1].id = 2
    /\ images[3].duration = 20
    /\ \E i \in 1..3 : /\ images[i].crop # DefaultCrop
                       /\ images[i].adjustments = Vintage
                       /\ images[i].textOverlays = << Caption >>


\* C25 (as claimed): after a successful load the project in memory is the
\* saved record, whatever it was before: main and background audio assets,
\* subtitles, background volume and settings are those of the record, and
\* totalDuration is what it was at save time.
C25_LoadEqualsSnapshot ==
    [][HandleLoad("ok") /\ WellFormed(saved) =>
          LET p == saved[1] IN
          /\ audioAsset' = p.audioAsset
          /\ bgAudioAsset' = p.bgAudioAsset
          /\ lyrics' = p.subtitles
          /\ bgMusicVolume' = p.bgMusicVolume
          /\ [resolution |-> resolution', frameRate |-> frameRate',
              transitionEffect |-> transitionEffect',
              transitionDuration |-> transitionDuration',
              mainAudioVolume |-> mainAudioVolume'] = p.settings[1]
          /\ totalDuration(audioAsset', images')
                 = totalDuration(p.audioAsset, p.images)]_vars

\* C26 (as claimed): when a save or a load fails (the database cannot be
\* opened, read or written, or the record makes the load handler throw
\* part-way) a failure notification is shown and clips, subtitles, audio
\* assets, volumes and settings are what they were before.
C26_FailureLeavesState ==
    [][(\/ HandleSave("error")
        \/ HandleLoad("error")
        \/ HandleLoad("ok") /\ saved # <<>> /\ ~WellFormed(saved))
         => /\ lastToast' \in {"Save failed.", "Load failed."}
            /\ UNCHANGED <<images, lyrics, audioAsset, bgAudioAsset,
                           mainAudioVolume, bgMusicVolume, resolution, frameRate,
                           transitionEffect, transitionDuration>>]_vars


\* C27 (as claimed): when the AI caption capability fails or its credential
\* is missing, a notification is shown and no text overlay is added to any
\* clip.
C27_CaptionFailure ==
    [][(CaptionReturns("nokey") \/ CaptionReturns("error")) =>
          /\ images' = images
          /\ lastToast' # "Caption generated!"]_vars

C29_OverlaysOnCanvas ==
    \A i \in 1..Len(images) : \A k \in 1..Len(images[i].textOverlays) :
        LET ov == images[i].textOverlays[k]
        IN  /\ ov.x \in 0..100
            /\ ov.y \in 0..100
            /\ ov.opacity \in 0..100


\* the bitrate table of the export, in bits per second
BitrateTable(res, fps) ==
    CASE res = "1080p" /\ fps = 60 -> 8000000
      [] res = "1080p" /\ fps = 30 -> 5000000
      [] res = "720p" /\ fps = 60 -> 3500000
      [] res = "720p" /\ fps = 30 -> 2500000

\* C30: the recorder of an export is constructed with webm/vp9 and the
\* bitrate of the table for (resolution, frame rate); when vp9 is not
\* supported it is constructed with plain webm and no explicit bitrate, and
\* the export goes on.
C30_BitrateTable ==
    [][\A outcome \in {"ok", "start"} : HandleExport(outcome) =>
          /\ vp9Supported =>
                recorderOptions' =
                    [mimeType |-> "video/webm;codecs=vp9",
                     videoBitsPerSecond |-> BitrateTable(resolution, frameRate)]
          /\ ~vp9Supported =>
                recorderOptions' = [mimeType |-> "video/webm",
                                    videoBitsPerSecond |-> NoBitrate]
          /\ outcome = "ok" => recorder' = "recording" /\ appState' = "EXPORTING"]_vars

\* an export at 1080p and 60 frames per second is recording in a browser
\* without vp9
C30_Witness ==
    /\ recorder = "recording"
    /\ resolution = "1080p"
    /\ frameRate = 60
    /\ ~vp9Supported
    /\ recorderOptions.mimeType = "video/webm"


\* ease = 1 - (1 - p)^3 and 1 - ease, for a progress p
EaseOutCubic(p) ==
    LET q == p[2] - p[1]
    IN  <<(p[2] * p[2] * p[2]) - (q * q * q), p[2] * p[2] * p[2]>>

OneMinus(f) == <<f[2] - f[1], f[2]>>

\* C31: a text overlay with progress p is drawn, by kind: none, the full
\* text at the overlay's opacity and position; fade, at opacity x p;
\* slide-up, at opacity x p and (1 - ease) offsets below the position, with
\* ease = 1 - (1 - p)^3; typewriter, the first floor(len x p) characters.
\* Once the local time has reached animationDuration all kinds are drawn
\* alike: full text, overlay opacity, target position.
C31_OverlayAnimation ==
    Active =>
        \A k \in 1..Len(FrameClip.textOverlays) :
           LET ov == FrameClip.textOverlays[k]
               tx == frame.texts[k]
               p == tx.progress
               full == /\ tx.renderText = ov.text
                       /\ FracEq(tx.renderOpacity, <<ov.opacity, 100>>)
                       /\ FracEq(tx.renderOffset, <<0, 1>>)
           IN  /\ ov.animation = "none" => full
               /\ ov.animation = "fade" =>
                     /\ FracEq(tx.renderOpacity, <<ov.opacity * p[1], 100 * p[2]>>)
                     /\ FracEq(tx.renderOffset, <<0, 1>>)
                     /\ tx.renderText = ov.text
               /\ ov.animation = "slide-up" =>
                     /\ FracEq(tx.renderOpacity, <<ov.opacity * p[1], 100 * p[2]>>)
                     /\ FracEq(tx.renderOffset, OneMinus(EaseOutCubic(p)))
                     /\ tx.renderText = ov.text
               /\ ov.animation = "typewriter" =>
                     /\ FracEq(tx.renderOpacity, <<ov.opacity, 100>>)
                     /\ FracEq(tx.renderOffset, <<0, 1>>)
                     /\ \E n \in 0..Len(ov.text) :
                           /\ n * p[2] <= Len(ov.text) * p[1]
                           /\ Len(ov.text) * p[1] < (n + 1) * p[2]
                           /\ tx.renderText = SubSeq(ov.text, 1, n)
               /\ FrameLocalTime >= ov.animationDuration =>
                     FracEq(p, <<1, 1>>) /\ full

\* a slide-up overlay part of the way through its animation
C31_Witness ==
    /\ Active
    /\ \E k \in 1..Len(frame.texts) :
          /\ FrameClip.textOverlays[k].animation = "slide-up"
          /\ FrameClip.textOverlays[k].opacity = 50
          /\ FracEq(frame.texts[k].progress, <<1, 5>>)
          /\ FracEq(frame.texts[k].renderOffset, <<64, 125>>)


\* C32: inserting k image files into a project of n clips appends k clips
\* after the existing ones, in file order, each with duration (main audio
\* duration) / (n + k) when a main audio asset is loaded and 5 seconds
\* otherwise; the n existing clips keep their ids, order and durations.
C32_InsertDurations ==
    [][\A k \in 1..MaxClips : ProcessFiles(k) =>
          LET n == Len(images) IN
          /\ Len(images') = n + k
          /\ SubSeq(images', 1, n) = images
          /\ \A j \in 1..k :
                /\ images'[n + j].id = n + j
                /\ audioAsset.present =>
                      images'[n + j].duration * (n + k) = audioAsset.duration
                /\ ~audioAsset.present =>
                      images'[n + j].duration = DefaultClipDuration]_vars

\* a clip inserted next to an older clip, with the audio loaded
C32_Witness ==
    /\ audioAsset.present
    /\ Len(images) = 2
    /\ images[1].duration = DefaultClipDuration
    /\ images[2].duration * 2 = audioAsset.duration


\* C33: when a caption request returns, the new overlay is appended to the
\* overlays the target clip has at that moment, so whatever was added,
\* edited or deleted on the clip while the request was in flight is kept;
\* every other clip is unchanged.
C33_CaptionMerge ==
    [][\A outcome \in RemoteOutcomes : CaptionReturns(outcome) =>
          /\ Len(images') = Len(images)
          /\ \A i \in 1..Len(images) :
                IF images[i].id = captionJob[1].id
                THEN /\ Len(images'[i].textOverlays) =
                            Len(images[i].textOverlays) + 1
                     /\ SubSeq(images'[i].textOverlays, 1,
                               Len(images[i].textOverlays)) = images[i].textOverlays
                ELSE images'[i] = images[i]]_vars


\* C34: an export without main audio goes through the timeline exactly
\* once: while the recorder records, global time never goes back (the frame
\* loop's stop and rewind at the end of the timeline included), and the
\* recorder is not stopped before global time has reached totalDuration.
C34_TraversedOnce ==
    /\ [][~audioAsset.present /\ recorder = "recording" /\ recorder' = "recording"
             => currentTime' >= currentTime /\ isPlaying']_vars
    /\ [][~audioAsset.present /\ recorder = "recording" /\ recorder' # "recording"
             => currentTime >= totalDuration(audioAsset, images)]_vars


\* something is installed that will call recorder.stop(): the ended handler
\* of an export with main audio, or the timeout of one without
StopPending == onended \/ exportTimer # NoTimer

\* C35: at most one export is in progress: no recorder is started while
\* the app is EXPORTING, a recorder's stop is invoked at most once (one
\* caller of stop is installed per recorder, and only while it records), and
\* no ended handler of an earlier export is left to stop a later recorder.
C35_OneExport ==
    /\ [](recorder # "none" => appState = "EXPORTING")
    /\ [](StopPending => recorder = "recording")
    /\ [](~(onended /\ exportTimer # NoTimer))
    /\ [][recorder' = "recording" /\ recorder # "recording"
             => /\ appState # "EXPORTING"
                /\ recorder = "none"
                /\ ~StopPending]_vars
    /\ [][recorder' = "stopping" /\ recorder # "stopping"
             => recorder = "recording" /\ StopPending /\ ~StopPending']_vars

\* a later export records after an export with main audio has finished
C35_Witness ==
    /\ recorder = "recording"
    /\ lastToast = "Exported!"
    /\ audioAsset.present
    /\ onended


\* an <audio> element with a source that is not paused
Sounding(el) == ~el.paused /\ el.duration # 0

\* C36: whenever the driver is stopped (isPlaying false, no export going
\* on) neither the main nor the background <audio> element is playing.
C36_SilentWhenStopped ==
    (~isPlaying /\ appState # "EXPORTING") => ~Sounding(audioEl) /\ ~Sounding(bgEl)


\* C37: after jumpToImage for a clip, the active clip resolved from the new
\* global time is that clip, whatever the clips and the target; global time
\* is 0.1 s past the clip's start, and so is the position of every audio
\* element whose media is that long.
C37_JumpResolvesTarget ==
    [][\A i \in 1..Len(images) : jumpToImage(i) =>
          /\ getActiveImageIndex(images', currentTime') = i - 1
          /\ ScanActive(images', currentTime', 0, 0).index = i - 1
          /\ \A el \in {audioEl', bgEl'} :
                el.duration >= currentTime' => el.currentTime = currentTime']_vars


Without(s, i) == SubSeq(s, 1, i - 1) \o SubSeq(s, i + 1, Len(s))

\* the same clips, field by field, in some order
SameClips(a, b) ==
    /\ Len(a) = Len(b)
    /\ {a[i] : i \in 1..Len(a)} = {b[i] : i \in 1..Len(b)}
    /\ {a[i].id : i \in 1..Len(a)} = {b[i].id : i \in 1..Len(b)}
    /\ totalImageDuration(a) = totalImageDuration(b)

Indexes == 0..(Len(images) - 1)

\* C38: every reorder permutes the clips.  handleTimelineReorder(from, to)
\* puts the moved clip at index to and keeps the order of the others;
\* moveSelectedImageOrder exchanges the selected clip with its neighbour,
\* does nothing at the end of the sequence on that side, and backward then
\* forward gives the original order back; the clips' ids and fields and the
\* total visual duration never change.
C38_ReorderPermutes ==
    /\ [](\A from \in Indexes, to \in Indexes :
            LET r == handleTimelineReorder(images, from, to)
            IN  /\ r[to + 1] = images[from + 1]
                /\ Without(r, to + 1) = Without(images, from + 1)
                /\ SameClips(r, images))
    /\ [](\A index \in Indexes, direction \in {"backward", "forward"} :
            LET r == SwapWithNeighbour(images, index, direction)
                j == IF direction = "backward" THEN index - 1 ELSE index + 1
            IN  /\ SameClips(r, images)
                /\ IF j \in Indexes
                   THEN /\ r[j + 1] = images[index + 1]
                        /\ r[index + 1] = images[j + 1]
                        /\ \A k \in Indexes \ {index, j} : r[k + 1] = images[k + 1]
                   ELSE r = images)
    /\ [](\A index \in Indexes \ {0} :
            SwapWithNeighbour(SwapWithNeighbour(images, index, "backward"),
                              index - 1, "forward") = images)
    /\ [][\A dropIndex \in Indexes : handleDrop(dropIndex) /\ draggedIndex # <<>> =>
             images' = handleTimelineReorder(images, draggedIndex[1], dropIndex)]_vars
    /\ [][\A i \in 1..Len(images), direction \in {"backward", "forward"} :
             moveSelectedImageOrder(i, direction) =>
                images' = SwapWithNeighbour(images, i - 1, direction)]_vars
    /\ [][images' # images => SameClips(images', images)]_vars

\* the first of three clips was dragged onto the last
C38_Witness ==
    /\ ~dragging
    /\ draggedIndex = <<>>
    /\ Len(images) = 3
    /\ images[1].id = 2 /\ images[2].id = 3 /\ images[3].id = 1
    /\ images[3].textOverlays # <<>>


\* C39: the timeline's drag marker is set only while a clip is being
\* dragged: after a drag has ended, however it ended, draggedIndex is null,
\* so a click on the timeline's background seeks.
C39_DragMarkerCleared ==
    /\ [](~dragging => draggedIndex = <<>>)
    /\ [](~dragging => \A time \in SeekTimes : ENABLED TimelineSeek(time))


\* C40: opening the crop editor for a clip and saving without a change
\* leaves the clip's crop as it was, whatever was edited before; cancelling
\* leaves every crop as it was; saving writes the edited clip only.
C40_CropUnchanged ==
    /\ [][\A i \in 1..Len(images) : AdvancedCrop(i) =>
             WithCrop(images', editingImageId'[1], tempCrop') = images']_vars
    /\ [][closeCropModal => images' = images]_vars
    /\ [][saveCrop =>
             /\ Len(images') = Len(images)
             /\ \A i \in 1..Len(images) :
                   images[i].id # editingImageId[1] => images'[i] = images[i]]_vars

====
